---------------------------- MODULE Spec2Model ----------------------------
(***************************************************************************)
(* Visitor-identifier service: the server-side identity resolver           *)
(* (src/routes/estore.ts) and the client-side redundant storage            *)
(* orchestrator (src/public/script.js).                                    *)
(*                                                                         *)
(* JavaScript strings are sequences of one-character strings, so that the  *)
(* validator's regular expression, the ETag quote stripping, parseFloat    *)
(* and the hex encoding are computed character by character.               *)
(***************************************************************************)
EXTENDS Integers, Sequences, FiniteSets, TLC

(***************************************************************************)
(* Characters and strings                                                  *)
(***************************************************************************)

\* Printable ASCII, code points 32..126, in order (code point 96, the grave
\* accent, is written GRAVE).
Ascii == <<" ", "!", "\"", "#", "$", "%", "&", "'", "(", ")", "*", "+", ",", "-", ".", "/", "0", "1", "2", "3", "4", "5", "6", "7", "8", "9", ":", ";", "<", "=", ">", "?", "@", "A", "B", "C", "D", "E", "F", "G", "H", "I", "J", "K", "L", "M", "N", "O", "P", "Q", "R", "S", "T", "U", "V", "W", "X", "Y", "Z", "[", "\\", "]", "^", "_", "GRAVE", "a", "b", "c", "d", "e", "f", "g", "h", "i", "j", "k", "l", "m", "n", "o", "p", "q", "r", "s", "t", "u", "v", "w", "x", "y", "z", "{", "|", "}", "~">>

\* Index of each character in Ascii.
AsciiIndex ==
  [c \in {Ascii[i] : i \in 1..Len(Ascii)} |->
     CHOOSE i \in 1..Len(Ascii) : Ascii[i] = c]

CodePoint(c) == 31 + AsciiIndex[c]

DigitChars == {"0", "1", "2", "3", "4", "5", "6", "7", "8", "9"}

DigitValue(c) == CodePoint(c) - 48

\* The character class [a-f0-9] under the i flag.
HexClass == DigitChars \cup {"a", "b", "c", "d", "e", "f", "A", "B", "C", "D", "E", "F"}

HexDigits == <<"0", "1", "2", "3", "4", "5", "6", "7", "8", "9", "a", "b", "c", "d", "e", "f">>

Quote == "\""

\* String.prototype.slice(from, to) with 0-based from and a to counted from
\* the start (the callers pass the already resolved end).
Slice(s, from, to) == SubSeq(s, from + 1, to)

StartsWith(s, c) == Len(s) >= 1 /\ s[1] = c

EndsWith(s, c) == Len(s) >= 1 /\ s[Len(s)] = c

\* F(x), with x evaluated once however often F uses it.
Once(F(_), x) == CHOOSE y \in {F(v) : v \in {x}} : TRUE

\* An optional JavaScript value: undefined/null, or a string.
Undefined == [defined |-> FALSE, str |-> <<>>]

Defined(s) == [defined |-> TRUE, str |-> s]

\* JavaScript truthiness of an optional string: defined and not "".
Truthy(v) == v.defined /\ v.str # <<>>

TrueStr == <<"t", "r", "u", "e">>

FalseStr == <<"f", "a", "l", "s", "e">>

InfinityStr == <<"I", "n", "f", "i", "n", "i", "t", "y">>

(***************************************************************************)
(* Byte strings: crypto.randomBytes, Buffer.toString("hex"), SHA-256       *)
(***************************************************************************)

RandomByteCount == 16

DigestHexLength == 32

DigestByteCount == 32

\* Buffer.prototype.toString("hex"): two lowercase hex digits per byte.
ToHex(bytes) ==
  [i \in 1..(2 * Len(bytes)) |->
     LET b == bytes[(i + 1) \div 2]
     IN  IF i % 2 = 1 THEN HexDigits[(b \div 16) + 1] ELSE HexDigits[(b % 16) + 1]]

\* The i-th value crypto.randomBytes(16) can return in this model.
RandomBytes(i) == [k \in 1..RandomByteCount |-> (i * 97 + k * 29 + 5) % 256]

RECURSIVE Absorb(_, _, _)
Absorb(data, i, acc) ==
  IF i > Len(data) THEN acc
  ELSE Absorb(data, i + 1, (acc * 31 + CodePoint(data[i])) % 65521)

\* crypto.createHash("sha256").update(data).digest(): a deterministic
\* 32-byte digest that depends on every character of data and on nothing
\* else.  The compression function of SHA-256 is abstracted to a
\* polynomial checksum; only determinism, length and byte range are used.
Sha256(data) ==
  LET seed == Absorb(data, 1, 7)
  IN  [k \in 1..DigestByteCount |-> (seed * (2 * k + 1) + 7 * k * k + 13) % 256]

(***************************************************************************)
(* parseFloat                                                              *)
(***************************************************************************)

WhiteSpace == {" "}

RECURSIVE SkipWhiteSpace(_, _)
SkipWhiteSpace(s, i) ==
  IF i <= Len(s) /\ s[i] \in WhiteSpace THEN SkipWhiteSpace(s, i + 1) ELSE i

\* First index >= i that does not hold a decimal digit.
RECURSIVE DigitsEnd(_, _)
DigitsEnd(s, i) ==
  IF i <= Len(s) /\ s[i] \in DigitChars THEN DigitsEnd(s, i + 1) ELSE i

\* The value of the decimal digits s[i..j-1], continuing from acc.
RECURSIVE DigitsValue(_, _, _, _)
DigitsValue(s, i, j, acc) ==
  IF i >= j THEN acc ELSE DigitsValue(s, i + 1, j, acc * 10 + DigitValue(s[i]))

RECURSIVE Pow10(_)
Pow10(n) == IF n <= 0 THEN 1 ELSE 10 * Pow10(n - 1)

\* A JavaScript number | null.  A number is the exact fraction num/den, den
\* a power of ten; den = 0 is +Infinity or -Infinity by the sign of num.
NaN == [kind |-> "nan", num |-> 0, den |-> 1]

NullNumber == [kind |-> "null", num |-> 0, den |-> 1]

Number(n, d) == [kind |-> "number", num |-> n, den |-> d]

isNaN(x) == x.kind = "nan"

\* Truthiness of a number | null: null, NaN and 0 are falsy.
TruthyNumber(x) == x.kind = "number" /\ x.num # 0

\* m * 10^shift as a number.
Scale(m, shift) ==
  IF shift >= 0 THEN Number(m * Pow10(shift), 1) ELSE Number(m, Pow10(0 - shift))

\* The exponent's digits start at eStart; without a digit there is no
\* exponent part.
parseExponentDigits(s, m, nFrac, eStart, eSign) ==
  IF DigitsEnd(s, eStart) > eStart
  THEN Scale(m, eSign * DigitsValue(s, eStart, DigitsEnd(s, eStart), 0) - nFrac)
  ELSE Scale(m, 0 - nFrac)

\* The mantissa m with nFrac fraction digits ended before index e.
parseExponent(s, m, nDigits, nFrac, e) ==
  IF nDigits = 0 THEN NaN
  ELSE IF e <= Len(s) /\ s[e] \in {"e", "E"}
  THEN IF e + 1 <= Len(s) /\ s[e + 1] \in {"+", "-"}
       THEN parseExponentDigits(s, m, nFrac, e + 2, IF s[e + 1] = "-" THEN -1 ELSE 1)
       ELSE parseExponentDigits(s, m, nFrac, e + 1, 1)
  ELSE Scale(m, 0 - nFrac)

\* The integer digits are s[q..intEnd-1]; the fraction's, after a ".", end
\* before fracEnd.
parseFraction(s, q, sign, intEnd, fracEnd) ==
  IF intEnd <= Len(s) /\ s[intEnd] = "."
  THEN parseExponent(s,
         sign * DigitsValue(s, intEnd + 1, fracEnd, DigitsValue(s, q, intEnd, 0)),
         (intEnd - q) + (fracEnd - intEnd - 1), fracEnd - intEnd - 1, fracEnd)
  ELSE parseExponent(s, sign * DigitsValue(s, q, intEnd, 0), intEnd - q, 0, intEnd)

parseMantissa(s, q, sign) ==
  IF q + Len(InfinityStr) - 1 <= Len(s)
     /\ SubSeq(s, q, q + Len(InfinityStr) - 1) = InfinityStr
  THEN Number(sign, 0)
  ELSE parseFraction(s, q, sign, DigitsEnd(s, q), DigitsEnd(s, DigitsEnd(s, q) + 1))

parseSign(s, p) ==
  IF p <= Len(s) /\ s[p] \in {"+", "-"}
  THEN parseMantissa(s, p + 1, IF s[p] = "-" THEN -1 ELSE 1)
  ELSE parseMantissa(s, p, 1)

\* parseFloat(s): the longest prefix of the trimmed string that is a
\* StrDecimalLiteral, NaN when there is none.
parseFloat(s) == parseSign(s, SkipWhiteSpace(s, 1))

\* x > a/b for a number x and a decimal literal a/b.
GreaterThan(x, a, b) == x.num * b > a * x.den

(***************************************************************************)
(* Server: src/routes/estore.ts                                            *)
(***************************************************************************)

MinIdLength == 16

\* Qx7Manager.isValidQx7Id: a string matching /^[a-f0-9]{16,}$/i.
isValidQx7Id(qx7Id) ==
  /\ Truthy(qx7Id)
  /\ Len(qx7Id.str) >= MinIdLength
  /\ \A i \in 1..Len(qx7Id.str) : qx7Id.str[i] \in HexClass

\* cleanEtag stripping the leading quote only.
cleanEtagLeadingOnly(etag) ==
  IF ~Truthy(etag) THEN Undefined
  ELSE IF StartsWith(etag.str, Quote) /\ EndsWith(etag.str, Quote)
       THEN Defined(Slice(etag.str, 1, Len(etag.str)))
       ELSE etag

\* Qx7Manager.cleanEtag: null for a missing or empty ETag, else the value
\* without its surrounding double quotes when it has both.
cleanEtag(etag) ==
  IF ~Truthy(etag) THEN Undefined
  ELSE IF StartsWith(etag.str, Quote) /\ EndsWith(etag.str, Quote)
       THEN Defined(Slice(etag.str, 1, Len(etag.str) - 1))
       ELSE etag

\* generateQx7Id with four random bytes instead of sixteen.
generateQx7IdFourBytes(strategy, data, entropy) ==
  CASE strategy = "random"  -> ToHex(SubSeq(entropy, 1, 4))
    [] strategy = "cognito" ->
         SubSeq(ToHex(Sha256(data.cognitoUserId.str)), 1, DigestHexLength)
    [] OTHER                -> ToHex(SubSeq(entropy, 1, 4))

\* generateQx7Id without the "cognito" case: every strategy is random.
generateQx7IdAlwaysRandom(strategy, data, entropy) == ToHex(entropy)

\* Qx7Manager.generateQx7Id(strategy, data); entropy is what
\* crypto.randomBytes(16) returns in this call.
generateQx7Id(strategy, data, entropy) ==
  CASE strategy = "random"  -> ToHex(entropy)
    [] strategy = "cognito" ->
         SubSeq(ToHex(Sha256(data.cognitoUserId.str)), 1, DigestHexLength)
    [] OTHER                -> ToHex(entropy)

\* Header names as the handlers name them.
IF_NONE_MATCH == "if-none-match"

X_QX7_ID == "x-qx7-id"

X_DATA_CLEARED == "x-data-cleared"

X_COGNITO_USER_ID == "x-cognito-user-id"

X_RETURNING_FROM_AUTH == "x-returning-from-auth"

X_INCOGNITO_MODE == "x-incognito-mode"

X_LIMITED_STORAGE == "x-limited-storage"

X_SW_INTEGRITY_SCORE == "x-sw-integrity-score"

\* Header names as a client writes them.
SentIfNoneMatch == "If-None-Match"

SentQx7Id == "X-Qx7-id"

SentDataCleared == "X-Data-Cleared"

SentCognitoUserId == "X-Cognito-User-Id"

SentReturningFromAuth == "X-Returning-From-Auth"

SentIncognitoMode == "X-Incognito-Mode"

SentLimitedStorage == "X-Limited-Storage"

SentSwIntegrityScore == "X-Sw-Integrity-Score"

\* String.prototype.toLowerCase on the header names in use.
LowerCaseName ==
  (SentIfNoneMatch :> IF_NONE_MATCH) @@ (SentQx7Id :> X_QX7_ID)
  @@ (SentDataCleared :> X_DATA_CLEARED)
  @@ (SentCognitoUserId :> X_COGNITO_USER_ID)
  @@ (SentReturningFromAuth :> X_RETURNING_FROM_AUTH)
  @@ (SentIncognitoMode :> X_INCOGNITO_MODE)
  @@ (SentLimitedStorage :> X_LIMITED_STORAGE)
  @@ (SentSwIntegrityScore :> X_SW_INTEGRITY_SCORE)
  @@ [n \in {IF_NONE_MATCH, X_QX7_ID, X_DATA_CLEARED, X_COGNITO_USER_ID,
             X_RETURNING_FROM_AUTH, X_INCOGNITO_MODE, X_LIMITED_STORAGE,
             X_SW_INTEGRITY_SCORE} |-> n]

getHeaderName(name) == LowerCaseName[name]

getBoolHeader(r, header) ==
  LET headerName == getHeaderName(header)
  IN  headerName \in DOMAIN r.headers /\ r.headers[headerName] = TrueStr

\* null when the header is missing or does not parse; else the parsed number.
getNumericHeader(r, header) ==
  LET headerName == getHeaderName(header)
  IN  IF headerName \notin DOMAIN r.headers THEN NullNumber
      ELSE LET parsed == parseFloat(r.headers[headerName])
           IN  IF isNaN(parsed) THEN NullNumber ELSE parsed

getStringHeader(r, header) ==
  LET headerName == getHeaderName(header)
  IN  IF headerName \in DOMAIN r.headers THEN Defined(r.headers[headerName])
      ELSE Undefined

\* storedIdMethod with >= in place of >.
storedIdMethodInclusive(cognitoUserId, swIntegrityScore) ==
  IF Truthy(cognitoUserId) /\ TruthyNumber(swIntegrityScore)
     /\ ~GreaterThan(Number(7, 10), swIntegrityScore.num, swIntegrityScore.den)
  THEN "cognito-localStorage-verified"
  ELSE IF TruthyNumber(swIntegrityScore)
          /\ ~GreaterThan(Number(7, 10), swIntegrityScore.num, swIntegrityScore.den)
  THEN "localStorage-verified"
  ELSE IF Truthy(cognitoUserId)
  THEN "cognito-localStorage-verified"
  ELSE "localStorage"

\* The trusted-stored-id branch's label (lines 107-115).
storedIdMethod(cognitoUserId, swIntegrityScore) ==
  IF Truthy(cognitoUserId) /\ TruthyNumber(swIntegrityScore)
     /\ GreaterThan(swIntegrityScore, 7, 10)
  THEN "cognito-localStorage-verified"
  ELSE IF TruthyNumber(swIntegrityScore) /\ GreaterThan(swIntegrityScore, 7, 10)
  THEN "localStorage-verified"
  ELSE IF Truthy(cognitoUserId)
  THEN "cognito-localStorage-verified"
  ELSE "localStorage"

\* The ETag branch's label (line 123).
etagMethod(swIntegrityScore) ==
  IF TruthyNumber(swIntegrityScore) /\ GreaterThan(swIntegrityScore, 5, 10)
  THEN "etag-verified"
  ELSE "etag"

NullResolution == [qx7Id |-> Undefined, isReturning |-> FALSE,
                   persistenceMethod |-> "new"]

\* trustedResolution with the ETag tried before the stored id.
trustedResolutionEtagFirst(sig, cleanedEtag) ==
  IF Truthy(sig.etagFromHeader) /\ ~sig.dataCleared
     /\ Truthy(cleanedEtag) /\ isValidQx7Id(cleanedEtag)
  THEN [qx7Id |-> cleanedEtag, isReturning |-> TRUE,
        persistenceMethod |-> etagMethod(sig.swIntegrityScore)]
  ELSE IF Truthy(sig.clientQx7Id) /\ isValidQx7Id(sig.clientQx7Id) /\ ~sig.dataCleared
  THEN [qx7Id |-> sig.clientQx7Id, isReturning |-> TRUE,
        persistenceMethod |->
          storedIdMethod(sig.cognitoUserId, sig.swIntegrityScore)]
  ELSE NullResolution

\* The first if / else-if of resolveQx7IdAndMethod (lines 98-125).
trustedResolution(sig, cleanedEtag) ==
  IF Truthy(sig.clientQx7Id) /\ isValidQx7Id(sig.clientQx7Id) /\ ~sig.dataCleared
  THEN [qx7Id |-> sig.clientQx7Id, isReturning |-> TRUE,
        persistenceMethod |->
          storedIdMethod(sig.cognitoUserId, sig.swIntegrityScore)]
  ELSE IF Truthy(sig.etagFromHeader) /\ ~sig.dataCleared
  THEN IF Truthy(cleanedEtag) /\ isValidQx7Id(cleanedEtag)
       THEN [qx7Id |-> cleanedEtag, isReturning |-> TRUE,
             persistenceMethod |-> etagMethod(sig.swIntegrityScore)]
       ELSE NullResolution
  ELSE NullResolution

\* fallbackResolution with the cognito recovery tried before the privacy
\* flags.
fallbackResolutionCognitoFirst(sig, trusted, entropy) ==
  IF ~Truthy(trusted.qx7Id)
  THEN IF Truthy(sig.cognitoUserId) /\ sig.returningFromAuth
       THEN [qx7Id |-> Defined(generateQx7Id("cognito",
                                 [cognitoUserId |-> sig.cognitoUserId], entropy)),
             isReturning |-> TRUE,
             persistenceMethod |-> "cognito-post-auth-recovery"]
       ELSE IF sig.isIncognito \/ sig.hasLimitedStorage
       THEN [qx7Id |-> Defined(generateQx7Id("random", [cognitoUserId |-> Undefined],
                                             entropy)),
             isReturning |-> FALSE,
             persistenceMethod |->
               IF sig.isIncognito THEN "incognito-random"
               ELSE "limited-storage-random"]
       ELSE [qx7Id |-> Defined(generateQx7Id("random", [cognitoUserId |-> Undefined],
                                             entropy)),
             isReturning |-> FALSE,
             persistenceMethod |-> "new"]
  ELSE trusted

\* The strategies for a still missing id (lines 128-151).
fallbackResolution(sig, trusted, entropy) ==
  IF ~Truthy(trusted.qx7Id)
  THEN IF sig.isIncognito \/ sig.hasLimitedStorage
       THEN [qx7Id |-> Defined(generateQx7Id("random", [cognitoUserId |-> Undefined],
                                             entropy)),
             isReturning |-> FALSE,
             persistenceMethod |->
               IF sig.isIncognito THEN "incognito-random"
               ELSE "limited-storage-random"]
       ELSE IF Truthy(sig.cognitoUserId) /\ sig.returningFromAuth
       THEN [qx7Id |-> Defined(generateQx7Id("cognito",
                                 [cognitoUserId |-> sig.cognitoUserId], entropy)),
             isReturning |-> TRUE,
             persistenceMethod |-> "cognito-post-auth-recovery"]
       ELSE [qx7Id |-> Defined(generateQx7Id("random", [cognitoUserId |-> Undefined],
                                             entropy)),
             isReturning |-> FALSE,
             persistenceMethod |-> "new"]
  ELSE trusted

resolveQx7IdAndMethod(sig, entropy) ==
  fallbackResolution(sig, trustedResolution(sig, cleanEtag(sig.etagFromHeader)),
                     entropy)

\* The header extraction both handlers share (lines 193-204, 262-273).
signalBundle(r) ==
  [etagFromHeader    |-> getStringHeader(r, IF_NONE_MATCH),
   clientQx7Id       |-> getStringHeader(r, X_QX7_ID),
   dataCleared       |-> getBoolHeader(r, X_DATA_CLEARED),
   cognitoUserId     |-> getStringHeader(r, X_COGNITO_USER_ID),
   returningFromAuth |-> getBoolHeader(r, X_RETURNING_FROM_AUTH),
   isIncognito       |-> getBoolHeader(r, X_INCOGNITO_MODE),
   hasLimitedStorage |-> getBoolHeader(r, X_LIMITED_STORAGE),
   swIntegrityScore  |-> getNumericHeader(r, X_SW_INTEGRITY_SCORE)]

\* notModified comparing the header as sent, quotes included.
notModifiedUncleaned(etagFromHeader, qx7Id) ==
  /\ Truthy(etagFromHeader)
  /\ etagFromHeader = qx7Id
  /\ isValidQx7Id(cleanEtag(etagFromHeader))

\* The 304 test of both handlers (lines 219-225, 288-294).
notModified(etagFromHeader, qx7Id) ==
  /\ Truthy(etagFromHeader)
  /\ cleanEtag(etagFromHeader) = qx7Id
  /\ isValidQx7Id(cleanEtag(etagFromHeader))

NoBody == [qx7Id |-> <<>>, persistenceMethod |-> "", isReturning |-> FALSE,
           error |-> ""]

NoEvent == [utm_cdn |-> "", event_name |-> "", id |-> <<>>, other_info |-> "",
            persistence_method |-> ""]

\* The body sendEventToAnalytickz posts (lines 156-186); nothing for a
\* missing id.
analyticsEvent(rockmanId, qx7Id, event, persistenceMethod) ==
  IF ~Truthy(qx7Id) THEN NoEvent
  ELSE [utm_cdn |-> rockmanId, event_name |-> "filter-tag", id |-> qx7Id.str,
        other_info |-> event, persistence_method |-> persistenceMethod]

\* The try block of onboarding-step1 after the resolution (lines 218-246).
step1Response(r, sig, out) ==
  IF notModified(sig.etagFromHeader, out.qx7Id)
  THEN [resolution |-> out,
        event |-> NoEvent,
        response |->
          [status |-> 304, hasBody |-> FALSE, etag |-> <<>>, xQx7Id |-> <<>>,
           xPersistenceMethod |-> "", body |-> NoBody]]
  ELSE [resolution |-> out,
        event |-> analyticsEvent(r.query.rockmanId, out.qx7Id,
                                 "onboarding-step1", out.persistenceMethod),
        response |->
          [status |-> 200, hasBody |-> TRUE,
           etag |-> <<Quote>> \o out.qx7Id.str \o <<Quote>>,
           xQx7Id |-> out.qx7Id.str,
           xPersistenceMethod |-> out.persistenceMethod,
           body |-> [qx7Id |-> out.qx7Id.str,
                     persistenceMethod |-> out.persistenceMethod,
                     isReturning |-> out.isReturning, error |-> ""]]]

\* The catch block of onboarding-step1 (lines 247-254).
step1Failure(out, fallbackEntropy) ==
  [resolution |-> out,
   event |-> NoEvent,
   response |->
     [status |-> 500, hasBody |-> TRUE, etag |-> <<>>, xQx7Id |-> <<>>,
      xPersistenceMethod |-> "",
      body |-> [qx7Id |-> generateQx7Id("random", [cognitoUserId |-> Undefined],
                                        fallbackEntropy),
                persistenceMethod |-> "", isReturning |-> FALSE,
                error |-> "Internal server error"]]]

\* router.get("/onboarding-step1"): what the handler resolves, responds and
\* posts for the signals sig of request r.  thrown says whether an exception
\* reaches the catch block before the response is sent; fallbackEntropy is
\* the random draw of the catch block.
onboardingStep1(r, sig, entropy, thrown, fallbackEntropy) ==
  IF thrown
  THEN step1Failure(resolveQx7IdAndMethod(sig, entropy), fallbackEntropy)
  ELSE step1Response(r, sig, resolveQx7IdAndMethod(sig, entropy))

\* The try block of onboarding-step2 after the resolution (lines 287-322).
step2Response(r, sig, out) ==
  IF notModified(sig.etagFromHeader, out.qx7Id)
  THEN [resolution |-> out,
        event |-> NoEvent,
        response |->
          [status |-> 304, hasBody |-> FALSE, etag |-> <<>>, xQx7Id |-> <<>>,
           xPersistenceMethod |-> "", body |-> NoBody]]
  ELSE [resolution |-> out,
        event |-> analyticsEvent(r.query.rockmanId, out.qx7Id,
                                 "onboarding-step2", out.persistenceMethod),
        response |->
          [status |-> 200, hasBody |-> TRUE,
           etag |-> <<Quote>> \o out.qx7Id.str \o <<Quote>>,
           xQx7Id |-> out.qx7Id.str,
           xPersistenceMethod |-> out.persistenceMethod,
           body |-> NoBody]]

\* The catch block of onboarding-step2 (lines 323-340).
step2Failure(out, fallbackEntropy) ==
  [resolution |-> out,
   event |-> NoEvent,
   response |->
     [status |-> 500, hasBody |-> TRUE, etag |-> <<>>,
      xQx7Id |-> generateQx7Id("random", [cognitoUserId |-> Undefined],
                               fallbackEntropy),
      xPersistenceMethod |-> "error-fallback", body |-> NoBody]]

\* router.get("/onboarding-step2"), as onboardingStep1.
onboardingStep2(r, sig, entropy, thrown, fallbackEntropy) ==
  IF thrown
  THEN step2Failure(resolveQx7IdAndMethod(sig, entropy), fallbackEntropy)
  ELSE step2Response(r, sig, resolveQx7IdAndMethod(sig, entropy))

(***************************************************************************)
(* Requests                                                                *)
(***************************************************************************)

\* Node's http parser: header names arrive lowercased in req.headers.
incomingHeaders(raw) ==
  [n \in {LowerCaseName[k] : k \in DOMAIN raw} |->
     raw[CHOOSE k \in DOMAIN raw : LowerCaseName[k] = n]]

\* The rockmanId query parameter handleRequest always sends.
ROCKMAN_ID == "1234567890"

incomingRequest(raw) ==
  [headers |-> incomingHeaders(raw), query |-> [rockmanId |-> ROCKMAN_ID]]

\* Number of distinct values crypto.randomBytes returns within a behaviour.
NumRandomDraws == 2

\* Identifier strings a client may hold or forge.
ClientIdA == <<"A", "B", "C", "d", "e", "f", "0", "1", "2", "3", "4", "5", "6", "7", "8", "9">>

ShortId == <<"a", "b", "c", "d", "e", "f", "0", "1", "2", "3", "4", "5", "6", "7", "8">>

NonHexId == <<"a", "b", "c", "d", "e", "f", "0", "1", "2", "3", "4", "5", "6", "7", "8", "g">>

UserOne == <<"u", "1">>

UserTwo == <<"u", "2">>

\* The id the server derives for UserOne.
RecoveredIdOne == SubSeq(ToHex(Sha256(UserOne)), 1, DigestHexLength)

Quoted(s) == <<Quote>> \o s \o <<Quote>>

\* The values a client may give each header (names as the client writes
\* them).
HeaderValues ==
  (SentIfNoneMatch :>
     {Quoted(ClientIdA), ClientIdA, Quoted(ShortId), Quoted(RecoveredIdOne)})
  @@ (SentQx7Id :> {ClientIdA, NonHexId})
  @@ (SentDataCleared :> {TrueStr, FalseStr})
  @@ (SentCognitoUserId :> {UserOne, UserTwo})
  @@ (SentReturningFromAuth :> {TrueStr})
  @@ (SentIncognitoMode :> {TrueStr})
  @@ (SentLimitedStorage :> {TrueStr})
  @@ (SentSwIntegrityScore :>
        {<<"a", "b", "c">>, <<"0", ".", "5">>, <<"0", ".", "7">>,
         <<"0", ".", "7", "1">>})

(***************************************************************************)
(* Qx7Storage (src/public/script.js)                                       *)
(*                                                                         *)
(* Storage keys and backend names are TLA+ strings; stored values are      *)
(* JavaScript strings (tuples of characters).  Clock readings are whole    *)
(* seconds: a time t of the model is the JavaScript number 1000 * t, and   *)
(* the conversions of numbers to text write the milliseconds out.          *)
(***************************************************************************)

QX7_ID_KEY == "zkx_qx7_id"

BACKUP_KEYS == <<"qx7_id_backup", "session_data">>

ZKX_DB_NAME == "zkx_qx7_db"

\* STORAGE_PRIORITIES as the object literal sets it.
InitialStoragePriorities ==
  <<"localStorage", "sessionStorage", "indexedDB", "cookies", "serviceWorker">>

\* 365 * 24 * 60 * 60 * 1000 ms.
DefaultTtl == 365 * 24 * 60 * 60

MetadataVersion == <<"2", ".", "0">>

\* Number.prototype.toString of a non-negative integer.
RECURSIVE NumberToString(_)
NumberToString(n) ==
  IF n < 10 THEN <<HexDigits[n + 1]>>
  ELSE NumberToString(n \div 10) \o <<HexDigits[(n % 10) + 1]>>

\* toString of the millisecond number 1000 * t.
MillisToString(t) ==
  IF t = 0 THEN <<"0">> ELSE NumberToString(t) \o <<"0", "0", "0">>

\* JSON.stringify({ timestamp, ttl, version }).
JSONstringify(metadata) ==
  <<"{", "\"", "t", "i", "m", "e", "s", "t", "a", "m", "p", "\"", ":">>
    \o MillisToString(metadata.timestamp)
    \o <<",", "\"", "t", "t", "l", "\"", ":">>
    \o MillisToString(metadata.ttl)
    \o <<",", "\"", "v", "e", "r", "s", "i", "o", "n", "\"", ":", "\"">>
    \o metadata.version
    \o <<"\"", "}">>

UpperHexDigits == <<"0", "1", "2", "3", "4", "5", "6", "7", "8", "9", "A", "B", "C", "D", "E", "F">>

\* The characters encodeURIComponent leaves as they are.
UriUnreserved ==
  {Ascii[i] : i \in 34..59} \cup {Ascii[i] : i \in 66..91} \cup DigitChars
    \cup {"-", "_", ".", "!", "~", "*", "'", "(", ")"}

RECURSIVE encodeURIComponent(_)
encodeURIComponent(s) ==
  IF s = <<>> THEN <<>>
  ELSE (IF Head(s) \in UriUnreserved THEN <<Head(s)>>
        ELSE <<"%", UpperHexDigits[(CodePoint(Head(s)) \div 16) + 1],
               UpperHexDigits[(CodePoint(Head(s)) % 16) + 1]>>)
       \o encodeURIComponent(Tail(s))

\* isValidQx7Id of Qx7Storage.
ClientMinIdLength == 16

Qx7Storage_isValidLengthOnly(id) ==
  Truthy(id) /\ Len(id.str) >= ClientMinIdLength

Qx7Storage_isValidQx7Id(id) ==
  /\ Truthy(id)
  /\ Len(id.str) >= ClientMinIdLength
  /\ \A i \in 1..Len(id.str) : id.str[i] \in HexClass

\* Storage.setItem.
setItem(storage, key, value) == (key :> value) @@ storage

\* The first n of a run of setItem calls.
RECURSIVE setItems(_, _, _)
setItems(storage, writes, n) ==
  IF n = 0 THEN storage
  ELSE setItem(setItems(storage, writes, n - 1), writes[n][1], writes[n][2])

\* What a storage adapter's try block leaves behind and returns when its
\* throwsAt-th setItem throws (0: none does).
storeItems(storage, writes, throwsAt) ==
  Once(LAMBDA items :
         IF throwsAt = 0
         THEN [status |-> "fulfilled", value |-> TRUE,
               backend |-> setItems(storage, items, Len(items))]
         ELSE [status |-> "fulfilled", value |-> FALSE,
               backend |-> setItems(storage, items, throwsAt - 1)],
       writes)

storeInLocalStorage(storage, qx7Id, metadata, now, throwsAt) ==
  storeItems(storage,
             << <<QX7_ID_KEY, qx7Id>>,
                <<BACKUP_KEYS[1], qx7Id>>,
                <<BACKUP_KEYS[2], qx7Id>>,
                <<QX7_ID_KEY \o "_meta", JSONstringify(metadata)>>,
                <<QX7_ID_KEY \o "_expires", MillisToString(now + metadata.ttl)>> >>,
             throwsAt)

storeInSessionStorage(storage, qx7Id, metadata, throwsAt) ==
  storeItems(storage,
             << <<QX7_ID_KEY, qx7Id>>,
                <<QX7_ID_KEY \o "_meta", JSONstringify(metadata)>> >>,
             throwsAt)

\* The versioned database before it is ever opened.
NoDatabase == [version |-> 0, objectStoreNames |-> {}, qx7data |-> {}, metadata |-> {}]

\* request.onupgradeneeded of indexedDB.open(ZKX_DB_NAME, 2).
onupgradeneeded(db) ==
  [db EXCEPT !.version = 2,
             !.objectStoreNames = db.objectStoreNames \cup {"qx7data", "metadata"}]

\* IDBObjectStore.put into a store keyed by keyPath.
put(store, keyPath, record) ==
  {r \in store : r[keyPath] # record[keyPath]} \cup {record}

\* request.onsuccess of storeInIndexedDB.
storeInOpenedDatabase(db, qx7Id, metadata, fault) ==
  IF db.version < 2
  THEN [status |-> "rejected", value |-> FALSE, backend |-> db]
  ELSE IF fault = "transaction"
            \/ ~({"qx7data", "metadata"} \subseteq db.objectStoreNames)
  THEN [status |-> "rejected", value |-> FALSE, backend |-> db]
  ELSE [status |-> "fulfilled", value |-> TRUE,
        backend |->
          [db EXCEPT
             !.qx7data = put(db.qx7data, "id",
                             [id |-> qx7Id, timestamp |-> metadata.timestamp,
                              version |-> metadata.version]),
             !.metadata = put(db.metadata, "key",
                              [key |-> "current_qx7",
                               timestamp |-> metadata.timestamp,
                               ttl |-> metadata.ttl,
                               version |-> metadata.version])]]

\* fault: "none", "open" (request.onerror) or "transaction" (the transaction
\* throws or errors).
storeInIndexedDB(db, qx7Id, metadata, fault) ==
  IF fault = "open"
  THEN [status |-> "rejected", value |-> FALSE, backend |-> db]
  ELSE storeInOpenedDatabase(IF db.version < 2 THEN onupgradeneeded(db) ELSE db,
                             qx7Id, metadata, fault)

\* The assignment to document.cookie; toUTCString keeps whole seconds.
storeInCookies(jar, qx7Id, metadata, now, throws) ==
  IF throws
  THEN [status |-> "fulfilled", value |-> FALSE, backend |-> jar]
  ELSE [status |-> "fulfilled", value |-> TRUE,
        backend |->
          setItem(jar, QX7_ID_KEY,
                  [value |-> encodeURIComponent(
                               qx7Id \o <<"|">>
                                 \o MillisToString(metadata.timestamp)
                                 \o <<"|">> \o metadata.version),
                   expires |-> now + metadata.ttl,
                   path |-> "/", sameSite |-> "Lax"])]

\* controller: navigator.serviceWorker.controller exists.
storeInServiceWorker(inbox, qx7Id, metadata, controller) ==
  IF controller
  THEN [status |-> "fulfilled", value |-> TRUE,
        backend |-> Append(inbox, [type |-> "STORE_QX7_ID", qx7Id |-> qx7Id,
                                   metadata |-> metadata])]
  ELSE [status |-> "fulfilled", value |-> FALSE, backend |-> inbox]

\* An option of the options argument: left out, or given.
Option(v) == [defined |-> TRUE, value |-> v]

NoPriority == [defined |-> FALSE, value |-> ""]

NoTtl == [defined |-> FALSE, value |-> 0]

\* Destructuring with a default.
withDefault(option, default) ==
  IF option.defined THEN option.value ELSE default

\* The promises setQx7Id pushes for one adapter.
pushed(selected, adapter, outcome) ==
  IF selected
  THEN <<[adapter |-> adapter, status |-> outcome.status, value |-> outcome.value]>>
  ELSE <<>>

\* The backend after setQx7Id: the adapter's when it was called.
written(selected, backend, outcome) ==
  IF selected THEN outcome.backend ELSE backend

\* Promise.all in place of Promise.allSettled: one rejection rejects all.
successfulUnlessRejected(results) ==
  IF \E i \in DOMAIN results : results[i].status = "rejected" THEN 0
  ELSE Cardinality({i \in DOMAIN results : results[i].value = TRUE})

\* results.filter(...).length of setQx7Id.
successful(results) ==
  Cardinality({i \in DOMAIN results :
                 results[i].status = "fulfilled" /\ results[i].value = TRUE})

\* setQx7Id once the id has passed isValidQx7Id.
storeEverywhere(self, qx7Id, priority, metadata, faults, now) ==
  LET all == priority = "all"
      hasIndexedDB == \E i \in DOMAIN self.STORAGE_PRIORITIES :
                        self.STORAGE_PRIORITIES[i] = "indexedDB"
      inLocal == all \/ priority = "localStorage"
      inSession == all \/ priority = "sessionStorage"
      inIndexed == (all \/ priority = "indexedDB") /\ hasIndexedDB
      inCookies == all \/ priority = "cookies"
      inWorker == all \/ priority = "serviceWorker"
      settled(o) ==
        Once(LAMBDA storagePromises :
               [returned |-> successful(storagePromises) > 0,
                results |-> storagePromises,
                self |->
                  [localStorage |-> written(inLocal, self.localStorage, o.local),
                   sessionStorage |->
                     written(inSession, self.sessionStorage, o.session),
                   indexedDB |-> written(inIndexed, self.indexedDB, o.indexed),
                   cookies |-> written(inCookies, self.cookies, o.cookie),
                   serviceWorker |->
                     written(inWorker, self.serviceWorker, o.worker),
                   STORAGE_PRIORITIES |-> self.STORAGE_PRIORITIES]],
             pushed(inLocal, "localStorage", o.local)
               \o pushed(inSession, "sessionStorage", o.session)
               \o pushed(inIndexed, "indexedDB", o.indexed)
               \o pushed(inCookies, "cookies", o.cookie)
               \o pushed(inWorker, "serviceWorker", o.worker))
  IN  Once(settled,
           [local |-> storeInLocalStorage(self.localStorage, qx7Id, metadata,
                                          now, faults.localStorage),
            session |-> storeInSessionStorage(self.sessionStorage, qx7Id,
                                              metadata, faults.sessionStorage),
            indexed |-> storeInIndexedDB(self.indexedDB, qx7Id, metadata,
                                         faults.indexedDB),
            cookie |-> storeInCookies(self.cookies, qx7Id, metadata, now,
                                      faults.cookies),
            worker |-> storeInServiceWorker(self.serviceWorker, qx7Id, metadata,
                                            faults.controller)])

setQx7Id(self, qx7Id, options, faults, now) ==
  IF ~Qx7Storage_isValidQx7Id(qx7Id)
  THEN [returned |-> FALSE, results |-> <<>>, self |-> self]
  ELSE storeEverywhere(self, qx7Id.str,
                       withDefault(options.priority, "all"),
                       [timestamp |-> now,
                        ttl |-> withDefault(options.ttl, DefaultTtl),
                        version |-> MetadataVersion],
                       faults, now)

(***************************************************************************)
(* Qx7Storage: reading                                                     *)
(***************************************************************************)

\* Storage.getItem: null for a key that is not there.
getItem(storage, key) ==
  IF key \in DOMAIN storage THEN Defined(storage[key]) ELSE Undefined

\* Storage.removeItem.
removeItem(storage, key) ==
  Once(LAMBDA items : [k \in DOMAIN items \ {key} |-> items[k]], storage)

\* parseInt from the end e of the digits that start at q, after white space
\* up to p.
parseIntAt(s, p, q, e) ==
  LET cut == IF e - q > 3 THEN e - 3 ELSE q
  IN  IF e = q
      THEN [kind |-> "nan", negative |-> FALSE, seconds |-> 0, millis |-> 0]
      ELSE [kind |-> "number",
            negative |-> (p <= Len(s) /\ s[p] = "-"),
            seconds |-> DigitsValue(s, q, cut, 0),
            millis |-> DigitsValue(s, cut, e, 0)]

\* parseInt from the sign on.
parseIntSigned(s, p) ==
  Once(LAMBDA q : Once(LAMBDA e : parseIntAt(s, p, q, e), DigitsEnd(s, q)),
       IF p <= Len(s) /\ s[p] \in {"+", "-"} THEN p + 1 ELSE p)

\* parseInt(s) of a millisecond count: the digits after optional white
\* space and sign, NaN without a digit.  The number is seconds * 1000 +
\* millis.
parseInt(s) ==
  Once(LAMBDA str : Once(LAMBDA p : parseIntSigned(str, p),
                         SkipWhiteSpace(str, 1)),
       s)

\* Date.now() > n for the clock reading now (whole seconds) and a parsed n.
nowAfter(now, n) ==
  /\ n.kind = "number"
  /\ IF n.negative THEN now > 0 \/ n.seconds > 0 \/ n.millis > 0
     ELSE now > n.seconds

\* The test `expires && Date.now() > parseInt(expires)`.
expired(storage, key, now) ==
  /\ Truthy(getItem(storage, key \o "_expires"))
  /\ nowAfter(now, parseInt(getItem(storage, key \o "_expires").str))

\* One round of the loop of cleanupExpiredStorage.
cleanupKey(storage, key, now) ==
  IF expired(storage, key, now)
  THEN removeItem(removeItem(removeItem(storage, key), key \o "_meta"),
                  key \o "_expires")
  ELSE storage

cleanupExpiredStorage(storage, now) ==
  cleanupKey(cleanupKey(cleanupKey(storage, QX7_ID_KEY, now),
                        BACKUP_KEYS[1], now),
             BACKUP_KEYS[2], now)

\* throws: every use of localStorage throws.
getFromLocalStorage(storage, now, throws) ==
  IF throws THEN [value |-> Undefined, thrown |-> FALSE, backend |-> storage]
  ELSE IF ~Truthy(getItem(storage, QX7_ID_KEY))
  THEN [value |-> Undefined, thrown |-> FALSE, backend |-> storage]
  ELSE IF expired(storage, QX7_ID_KEY, now)
  THEN [value |-> Undefined, thrown |-> FALSE,
        backend |-> cleanupExpiredStorage(storage, now)]
  ELSE [value |-> getItem(storage, QX7_ID_KEY), thrown |-> FALSE,
        backend |-> storage]

getFromSessionStorage(storage, throws) ==
  IF throws THEN [value |-> Undefined, thrown |-> FALSE, backend |-> storage]
  ELSE [value |-> getItem(storage, QX7_ID_KEY), thrown |-> FALSE,
        backend |-> storage]

\* Order of IndexedDB string keys: by code unit, a prefix first.
RECURSIVE StringLess(_, _)
StringLess(a, b) ==
  IF b = <<>> THEN FALSE
  ELSE IF a = <<>> THEN TRUE
  ELSE IF Head(a) # Head(b) THEN CodePoint(Head(a)) < CodePoint(Head(b))
  ELSE StringLess(Tail(a), Tail(b))

\* sortedResults[0]: the record of the greatest timestamp, of the least key
\* among those (getAll returns the records in key order and the sort is
\* stable).
newest(records) ==
  CHOOSE r \in records :
    \A o \in records \ {r} :
      \/ r.timestamp > o.timestamp
      \/ r.timestamp = o.timestamp /\ StringLess(r.id, o.id)

\* indexedDB.open(ZKX_DB_NAME, 2) where no onupgradeneeded handler is set:
\* a database that is not there is created at version 2 without stores.
openWithoutUpgrade(db) == IF db.version < 2 THEN [db EXCEPT !.version = 2] ELSE db

\* request.onsuccess of getFromIndexedDB.
getFromOpenedDatabase(db, fault) ==
  [status |-> "fulfilled", thrown |-> FALSE, backend |-> db,
   value |-> IF db.version < 2 THEN Undefined
             ELSE IF ~("qx7data" \in db.objectStoreNames) THEN Undefined
             ELSE IF fault = "transaction" THEN Undefined
             ELSE IF db.qx7data = {} THEN Undefined
             ELSE Defined(newest(db.qx7data).id)]

getFromIndexedDB(db, fault) ==
  IF fault = "open"
  THEN [status |-> "rejected", thrown |-> TRUE, backend |-> db,
        value |-> Undefined]
  ELSE getFromOpenedDatabase(openWithoutUpgrade(db), fault)

\* Value of a hexadecimal digit.
HexValue ==
  [c \in HexClass |->
     CHOOSE v \in 0..15 : HexDigits[v + 1] = c \/ UpperHexDigits[v + 1] = c]

\* decodeURIComponent of a well-formed string of ASCII escapes.
RECURSIVE decodeURIComponent(_)
decodeURIComponent(s) ==
  IF s = <<>> THEN <<>>
  ELSE IF Head(s) = "%" /\ Len(s) >= 3
  THEN <<Ascii[16 * HexValue[s[2]] + HexValue[s[3]] - 31]>>
         \o decodeURIComponent(SubSeq(s, 4, Len(s)))
  ELSE <<Head(s)>> \o decodeURIComponent(Tail(s))

\* s.split(c)[0].
RECURSIVE firstField(_, _)
firstField(s, c) ==
  IF s = <<>> \/ Head(s) = c THEN <<>>
  ELSE <<Head(s)>> \o firstField(Tail(s), c)

\* The cookies document.cookie lists: those not yet expired.
documentCookie(jar, now) == {n \in DOMAIN jar : jar[n].expires > now}

\* throws: reading document.cookie throws.
getFromCookies(jar, now, throws) ==
  [thrown |-> FALSE, backend |-> jar,
   value |->
     IF throws \/ ~(QX7_ID_KEY \in documentCookie(jar, now)) THEN Undefined
     ELSE IF firstField(jar[QX7_ID_KEY].value, "=") = <<>> THEN Undefined
     ELSE IF Qx7Storage_isValidQx7Id(
               Defined(firstField(decodeURIComponent(
                         firstField(jar[QX7_ID_KEY].value, "=")), "|")))
     THEN Defined(firstField(decodeURIComponent(
                    firstField(jar[QX7_ID_KEY].value, "=")), "|"))
     ELSE Undefined]

getFromServiceWorker(inbox) ==
  [value |-> Undefined, thrown |-> FALSE, backend |-> inbox]

\* this.STORAGE_PRIORITIES.filter((m) => m !== "indexedDB").
withoutIndexedDB(priorities) == SelectSeq(priorities, LAMBDA m : m # "indexedDB")

\* this[`getFrom${Method}`](): the value read, whether the call threw, and
\* Qx7Storage and the backends after it.  denied: the browser APIs every use
\* of which throws.
consult(method, self, faults, denied, now) ==
  CASE method = "localStorage" ->
         LET r == getFromLocalStorage(self.localStorage, now,
                                      "localStorage" \in denied)
         IN  [value |-> r.value, thrown |-> r.thrown,
              self |-> [self EXCEPT !.localStorage = r.backend]]
    [] method = "sessionStorage" ->
         LET r == getFromSessionStorage(self.sessionStorage,
                                        "sessionStorage" \in denied)
         IN  [value |-> r.value, thrown |-> r.thrown, self |-> self]
    [] method = "indexedDB" ->
         LET r == getFromIndexedDB(self.indexedDB, faults.indexedDB)
         IN  [value |-> r.value, thrown |-> r.thrown,
              self |-> [self EXCEPT !.indexedDB = r.backend]]
    [] method = "cookies" ->
         LET r == getFromCookies(self.cookies, now, faults.cookies)
         IN  [value |-> r.value, thrown |-> r.thrown, self |-> self]
    [] method = "serviceWorker" ->
         LET r == getFromServiceWorker(self.serviceWorker)
         IN  [value |-> r.value, thrown |-> r.thrown, self |-> self]

\* A catch block that swallows the exception and leaves the list alone.
caughtAndIgnored(method, thrown, self) == self

\* The catch block of getQx7Id's loop.
caught(method, thrown, self) ==
  IF thrown /\ method = "indexedDB"
  THEN [self EXCEPT !.STORAGE_PRIORITIES = withoutIndexedDB(self.STORAGE_PRIORITIES)]
  ELSE self

\* The test on what an adapter returned, without the Validator.
hitAnyValue(c) == ~c.thrown /\ Truthy(c.value)

\* The test `id && this.isValidQx7Id(id)` on what an adapter returned.
hit(c) == ~c.thrown /\ Truthy(c.value) /\ Qx7Storage_isValidQx7Id(c.value)

\* getQx7Id's loop over the array it started with, from its i-th element.
RECURSIVE getQx7IdFrom(_, _, _, _, _, _, _)
getQx7IdFrom(methods, i, invoked, self, faults, denied, now) ==
  IF i > Len(methods)
  THEN [returned |-> Undefined, invoked |-> invoked, self |-> self]
  ELSE CHOOSE out \in
         {IF hit(c)
          THEN [returned |-> c.value, invoked |-> Append(invoked, methods[i]),
                self |-> c.self]
          ELSE getQx7IdFrom(methods, i + 1, Append(invoked, methods[i]),
                            caught(methods[i], c.thrown, c.self),
                            faults, denied, now) :
            c \in {consult(methods[i], self, faults, denied, now)}} : TRUE

getQx7Id(self, faults, denied, now) ==
  getQx7IdFrom(self.STORAGE_PRIORITIES, 1, <<>>, self, faults, denied, now)

(***************************************************************************)
(* detectQx7DataClearing                                                   *)
(***************************************************************************)

\* The probe `!storage.getItem(key)`, true when the storage throws.
storageProbe(storage, key, throws) == throws \/ ~Truthy(getItem(storage, key))

\* checkCacheStatus(): caches.keys() is empty; true when it throws.
checkCacheStatus(cacheKeys, throws) == throws \/ cacheKeys = {}

\* The checks the service-worker probe pushes.  registration: "unsupported"
\* (no navigator.serviceWorker), "none" (getRegistration() resolves
\* undefined) or "registered"; postMessage returns undefined.
workerProbe(registration, throws) ==
  IF registration = "unsupported" THEN <<>>
  ELSE IF throws THEN <<TRUE>>
  ELSE IF registration = "registered" THEN <<~FALSE>>
  ELSE <<>>

\* A threshold on the share of the probes that are positive.
dataClearedByShare(clearedCount, totalChecks) == 2 * clearedCount >= totalChecks

\* dataCleared: clearedCount >= 2.
dataCleared(clearedCount, totalChecks) == clearedCount >= 2

\* clearedCount / checks.length, as a fraction.
confidence(clearedCount, totalChecks) == [num |-> clearedCount, den |-> totalChecks]

ActiveSession == <<"a", "c", "t", "i", "v", "e">>

\* The two session marks detectQx7DataClearing leaves behind.
markSession(storage, throws) ==
  IF throws THEN storage ELSE setItem(storage, "active-session", ActiveSession)

markStart(storage, throws, now) ==
  IF throws \/ Truthy(getItem(storage, "session-start-time")) THEN storage
  ELSE setItem(storage, "session-start-time", MillisToString(now))

\* The object detectQx7DataClearing returns for its checks.
detected(checks, clearedCount) ==
  [dataCleared |-> dataCleared(clearedCount, Len(checks)),
   confidence |-> confidence(clearedCount, Len(checks)),
   checks |-> checks,
   clearedCount |-> clearedCount,
   totalChecks |-> Len(checks)]

\* detectQx7DataClearing has not returned yet.
NoDetection == [dataCleared |-> FALSE, confidence |-> [num |-> 0, den |-> 0],
                checks |-> <<>>, clearedCount |-> 0, totalChecks |-> 0]

\* checks.filter(Boolean).length.
positives(checks) == Cardinality({i \in DOMAIN checks : checks[i]})

\* detectQx7DataClearing from the return of its getQx7Id on.
detectAfterRead(read, sessionStore, cacheKeys, registration, faults, denied, now) ==
  [checks |->
     <<~Truthy(read.returned),
       storageProbe(sessionStore, "active-session", "sessionStorage" \in denied),
       storageProbe(read.self.localStorage, "session-start-time",
                    "localStorage" \in denied),
       checkCacheStatus(cacheKeys, "caches" \in denied)>>
       \o workerProbe(registration, "serviceWorker" \in denied),
   self |->
     [read.self EXCEPT
        !.sessionStorage =
          markSession(@, "sessionStorage" \in denied
                           \/ faults.sessionStorage = 1),
        !.localStorage =
          markStart(@, "localStorage" \in denied
                         \/ faults.localStorage = 1, now)]]

\* The checks of detectQx7DataClearing, and Qx7Storage and the backends
\* after it.
detectQx7DataClearing(self, cacheKeys, registration, faults, denied, now) ==
  Once(LAMBDA read :
         detectAfterRead(read, self.sessionStorage, cacheKeys, registration,
                         faults, denied, now),
       getQx7Id(self, faults, denied, now))

(***************************************************************************)
(* fetchEnhancedZkx and updateQx7IdImage                                   *)
(***************************************************************************)

maxRetries == 3

\* String(b) of a boolean.
String(b) == IF b THEN TrueStr ELSE FalseStr

\* The headers of the onboarding-step1 request among those a handler
\* reads.  detector: "absent" (no window.incognitoDetector), "normal" or
\* "incognito" (its results, hasLimitedStorage as isIncognito).
step1Headers(storedQx7Id, dataClearingResult, detector) ==
  [n \in {SentDataCleared}
          \cup (IF Truthy(storedQx7Id) THEN {SentQx7Id} ELSE {})
          \cup (IF detector # "absent"
                THEN {SentIncognitoMode, SentLimitedStorage} ELSE {}) |->
     CASE n = SentDataCleared -> String(dataClearingResult.dataCleared)
       [] n = SentQx7Id -> storedQx7Id.str
       [] OTHER -> String(detector = "incognito")]

\* The headers of the onboarding-step2 request: storedQx7Id || "".
step2Headers(storedQx7Id) ==
  [n \in {SentQx7Id} |-> IF Truthy(storedQx7Id) THEN storedQx7Id.str ELSE <<>>]

\* response.ok.
ok(response) == response.status >= 200 /\ response.status <= 299

\* The messages syncWithOtherDomains posts, after those posted before:
\* to the parent of a framed page, then to every iframe.
syncWithOtherDomains(posted, peers, qx7Id) ==
  posted
    \o (IF "parent" \in peers
        THEN <<[to |-> "parent", type |-> "SYNC_QX7_ID", qx7Id |-> qx7Id]>>
        ELSE <<>>)
    \o (IF "iframe" \in peers
        THEN <<[to |-> "iframe", type |-> "SYNC_QX7_ID", qx7Id |-> qx7Id]>>
        ELSE <<>>)

\* The options fetchEnhancedZkx passes to setQx7Id.
PersistEverywhere == [priority |-> Option("all"), ttl |-> Option(DefaultTtl)]

\* The persistence of fetchEnhancedZkx: skipped for an incognito page.
persist(self, detector, qx7Id, faults, now) ==
  IF detector = "incognito"
  THEN [returned |-> FALSE, results |-> <<>>, self |-> self]
  ELSE setQx7Id(self, Defined(qx7Id), PersistEverywhere, faults, now)

\* A retry loop that goes round once more.
exhaustedLate(attempt) == attempt > maxRetries

\* attempt >= maxRetries, after attempt++.
exhausted(attempt) == attempt >= maxRetries

\* Math.pow(2, attempt), the wait in seconds.
backoff(attempt) == 2 ^ attempt

\* What fetchEnhancedZkx returns when it gives up.
Degraded == [dataCleared |-> TRUE, hasData |-> FALSE, data |-> NoBody,
             confidence |-> [num |-> 0, den |-> 1], storageHealth |-> "degraded"]

\* The catch block of fetchEnhancedZkx.
afterFailure(f) ==
  IF exhausted(f.attempt + 1)
  THEN [f EXCEPT !.attempt = @ + 1, !.pc = "returned", !.returned = Degraded]
  ELSE [f EXCEPT !.attempt = @ + 1, !.pc = "waiting",
                 !.waits = Append(@, backoff(f.attempt + 1))]

\* The label getStorageHealthStatus gives healthyCount of totalCount.
healthLabel(healthyCount, totalCount) ==
  IF healthyCount = totalCount THEN "Excellent"
  ELSE IF 10 * healthyCount >= 7 * totalCount THEN "Good"
  ELSE IF 10 * healthyCount >= 4 * totalCount THEN "Fair"
  ELSE "Poor"

StorageTest == <<"t", "e", "s", "t">>

\* The test key getStorageHealthStatus leaves in a storage that takes it:
\* setItem returns undefined and the key is not removed.
healthMark(storage, throws) ==
  IF throws THEN storage ELSE setItem(storage, "storage-test", StorageTest)

\* getStorageHealthStatus from the return of its getFromIndexedDB on: the
\* two storage tests never pass.
healthAfterRead(indexed, self, faults, denied) ==
  [returned |-> healthLabel(IF Truthy(indexed.value) THEN 1 ELSE 0, 3),
   self |-> [self EXCEPT
               !.localStorage =
                 healthMark(@, "localStorage" \in denied
                                 \/ faults.localStorage = 1),
               !.sessionStorage =
                 healthMark(@, "sessionStorage" \in denied
                                 \/ faults.sessionStorage = 1),
               !.indexedDB = indexed.backend]]

getStorageHealthStatus(self, faults, denied) ==
  Once(LAMBDA indexed : healthAfterRead(indexed, self, faults, denied),
       getFromIndexedDB(self.indexedDB, faults.indexedDB))

\* What fetchEnhancedZkx returns after a response that is ok.
fetched(dataClearingResult, data, storageHealth) ==
  [dataCleared |-> dataClearingResult.dataCleared, hasData |-> TRUE,
   data |-> data, confidence |-> dataClearingResult.confidence,
   storageHealth |-> storageHealth]

\* updateQx7IdImage from the response on: a returned X-Qx7-id is stored.
storeReturned(self, returnedQx7Id, faults, now) ==
  IF returnedQx7Id # <<>>
  THEN setQx7Id(self, Defined(returnedQx7Id),
                [priority |-> NoPriority, ttl |-> NoTtl], faults, now)
  ELSE [returned |-> FALSE, results |-> <<>>, self |-> self]

(***************************************************************************)
(* setupQx7MsgBridge                                                       *)
(*                                                                         *)
(* A message event is [type, qx7Id, source]: event.data.type as a string,  *)
(* NoType when event.data has none; event.data.qx7Id as an optional        *)
(* string; event.source, "null" when the sender's window is gone.          *)
(***************************************************************************)

NoType == ""

\* A listener that takes every id a message carries.
acceptedUnvalidated(incoming) == Truthy(incoming)

\* The test `incoming && Qx7Storage.isValidQx7Id(incoming)`.
accepted(incoming) == Truthy(incoming) /\ Qx7Storage_isValidQx7Id(incoming)

\* event.source.postMessage(message, ...): throws on a null source.
replied(posted, source, message) ==
  IF source = "null" THEN [posted |-> posted, thrown |-> TRUE]
  ELSE [posted |-> Append(posted, message), thrown |-> FALSE]

\* What a case of the listener leaves: Qx7Storage and the backends, the
\* window's id, the messages posted, what setQx7Id returned, what
\* detectQx7DataClearing returned, whether the case threw.
Handled(self, current, posted, stored, cleared, thrown) ==
  [self |-> self, windowQx7Id |-> current, posted |-> posted,
   stored |-> stored, cleared |-> cleared, thrown |-> thrown]

\* case "request-qx7-id".
requestQx7Id(self, current, posted, event, faults, denied, now) ==
  IF Truthy(current)
  THEN Once(LAMBDA r : Handled(self, current, r.posted, FALSE, NoDetection,
                               r.thrown),
            replied(posted, event.source,
                    [to |-> "source", type |-> "qx7-id", qx7Id |-> current.str]))
  ELSE Once(LAMBDA read :
              Once(LAMBDA r : Handled(read.self, current, r.posted, FALSE,
                                      NoDetection, r.thrown),
                   replied(posted, event.source,
                           [to |-> "source", type |-> "qx7-id",
                            qx7Id |-> IF Truthy(read.returned)
                                      THEN read.returned.str ELSE <<>>])),
            getQx7Id(self, faults, denied, now))

\* localStorage.setItem("qx7-sync-timestamp", ...) in its own try block.
syncMark(storage, throws, now) ==
  IF throws THEN storage
  ELSE setItem(storage, "qx7-sync-timestamp", MillisToString(now))

\* case "sync-qx7-id" (marked) and case "SYNC_QX7_ID" (not marked).
syncQx7Id(self, current, posted, event, marked, faults, denied, now) ==
  IF accepted(event.qx7Id)
  THEN Once(LAMBDA stored :
              Handled([stored.self EXCEPT
                         !.localStorage =
                           IF marked
                           THEN syncMark(@, "localStorage" \in denied
                                              \/ faults.localStorage = 1, now)
                           ELSE @],
                      event.qx7Id, posted, stored.returned, NoDetection, FALSE),
            setQx7Id(self, event.qx7Id,
                     [priority |-> Option("all"), ttl |-> NoTtl], faults, now))
  ELSE Handled(self, current, posted, FALSE, NoDetection, FALSE)

\* case "check-data-cleared".
checkDataCleared(self, current, posted, event, cacheKeys, registration, faults, denied, now) ==
  Once(LAMBDA out :
         Once(LAMBDA cleared :
                Once(LAMBDA r : Handled(out.self, current, r.posted, FALSE,
                                        cleared, r.thrown),
                     replied(posted, event.source,
                             [to |-> "source", type |-> "data-cleared-status",
                              dataCleared |-> cleared.dataCleared,
                              confidence |-> cleared.confidence])),
              detected(out.checks, positives(out.checks))),
       detectQx7DataClearing(self, cacheKeys, registration, faults, denied, now))

\* The switch of the listener.
dispatched(self, current, posted, event, cacheKeys, registration, faults, denied, now) ==
  CASE event.type = "request-qx7-id" ->
         requestQx7Id(self, current, posted, event, faults, denied, now)
    [] event.type = "sync-qx7-id" ->
         syncQx7Id(self, current, posted, event, TRUE, faults, denied, now)
    [] event.type = "check-data-cleared" ->
         checkDataCleared(self, current, posted, event, cacheKeys, registration,
                          faults, denied, now)
    [] event.type = "SYNC_QX7_ID" ->
         syncQx7Id(self, current, posted, event, FALSE, faults, denied, now)
    [] OTHER -> Handled(self, current, posted, FALSE, NoDetection, FALSE)

\* The listener setupQx7MsgBridge adds: a message without type is passed
\* over; what a case throws is caught and dropped, so that nothing leaves
\* the listener (escaped).
onMessage(self, current, posted, event, cacheKeys, registration, faults, denied, now) ==
  IF event.type = NoType
  THEN [handled |-> Handled(self, current, posted, FALSE, NoDetection, FALSE),
        escaped |-> FALSE]
  ELSE [handled |-> dispatched(self, current, posted, event, cacheKeys,
                               registration, faults, denied, now),
        escaped |-> FALSE]

\* The message setupQx7MsgBridge posts to the parent of a framed page.
announced(posted, peers, current, context) ==
  IF "parent" \in peers
  THEN Append(posted,
              [to |-> "parent", type |-> "qx7-id",
               qx7Id |-> IF Truthy(current) THEN current.str ELSE <<>>,
               isNewSession |-> context.dataCleared,
               persistenceMethod |->
                 IF context.hasData THEN context.data.persistenceMethod
                 ELSE ""])
  ELSE posted

(***************************************************************************)
(* State                                                                   *)
(***************************************************************************)

VARIABLES
  req,         \* the request being assembled or last handled (raw headers)
  resolution,  \* what resolveQx7IdAndMethod returned for it
  res,         \* the response sent; status 0 while none is
  analytics,   \* the event posted to the analytics endpoint for it
  recoveries   \* <<cognitoUserId, id>> of every cognito-post-auth-recovery

VARIABLES
  localStorage,        \* window.localStorage: key -> value
  sessionStorage,      \* window.sessionStorage: key -> value
  indexedDB,           \* the database ZKX_DB_NAME
  cookies,             \* the cookie jar: name -> cookie
  serviceWorker,       \* the messages posted to the controlling worker
  STORAGE_PRIORITIES,  \* Qx7Storage.STORAGE_PRIORITIES
  now,                 \* Date.now(), in seconds
  faults,              \* how this browser's backends fail
  calls,               \* number of Qx7Storage calls made
  lastCall             \* the call just made, its arguments and its results

VARIABLES
  writes               \* the calls of setQx7Id that returned true, in order:
                       \* the id, Date.now() and ttl of each

VARIABLES
  denied,              \* the browser APIs every use of which throws
  caches,              \* caches.keys()
  registration,        \* navigator.serviceWorker and its registration
  detector,            \* window.incognitoDetector and its results
  peers,               \* the page's parent window and iframes
  frame,               \* the page's iframe as far as it runs this script:
                       \* where its DOMContentLoaded handler is, its
                       \* window.qx7Id, the messages it posted to the page
                       \* and how many of them were dispatched, and how
                       \* many of the page's messages were dispatched to it
  readers,             \* the calls of getQx7Id in progress, by caller: the
                       \* array each iterates, its position, what it invoked
  detection,           \* what detectQx7DataClearing returned last
  windowQx7Id,         \* window.qx7Id
  fetch,               \* fetchEnhancedZkx: where it is, attempt, the step1
                       \* requests sent, the waits made, what it returned
  posted               \* the messages the page posted to other windows

serverVars == <<req, resolution, res, analytics, recoveries>>

backends == <<localStorage, sessionStorage, indexedDB, cookies, serviceWorker>>

\* The page's state besides Qx7Storage and the backends.
browserVars == <<denied, caches, registration, detector, peers, frame>>

fetchVars == <<windowQx7Id, fetch, posted>>

scriptVars == <<detection, fetchVars>>

pageVars == <<browserVars, readers, scriptVars>>

clientVars == <<localStorage, sessionStorage, indexedDB, cookies, serviceWorker,
                STORAGE_PRIORITIES, now, faults, calls, lastCall, writes,
                pageVars>>

vars == <<req, resolution, res, analytics, recoveries,
          localStorage, sessionStorage, indexedDB, cookies, serviceWorker,
          STORAGE_PRIORITIES, now, faults, calls, lastCall, writes, pageVars>>

NoResolution == [qx7Id |-> Undefined, isReturning |-> FALSE,
                 persistenceMethod |-> ""]

NoResponse == [status |-> 0, hasBody |-> FALSE, etag |-> <<>>, xQx7Id |-> <<>>,
               xPersistenceMethod |-> "", body |-> NoBody]

NoHeaders == <<>>

\* A browser all of whose backends work; no worker controls the page yet.
NoFaults == [localStorage |-> 0, sessionStorage |-> 0, indexedDB |-> "none",
             cookies |-> FALSE, controller |-> FALSE]

\* The callers of getQx7Id that fetchEnhancedZkx runs side by side.
Readers == {"fetchEnhancedZkx", "detectQx7DataClearing"}

\* No call of getQx7Id in progress.
NotReading == [pc |-> "idle", methods |-> <<>>, i |-> 0, invoked |-> <<>>,
               value |-> Undefined]

\* fetchEnhancedZkx has not returned yet.
NoResult == [dataCleared |-> FALSE, hasData |-> FALSE, data |-> NoBody,
             confidence |-> [num |-> 0, den |-> 0], storageHealth |-> ""]

\* fetchEnhancedZkx at its first attempt.
FirstAttempt == [pc |-> "ready", attempt |-> 0, requests |-> 0, waits |-> <<>>,
                 returned |-> NoResult]

NoCall == [op |-> "", qx7Id |-> Undefined, options |-> [priority |-> NoPriority, ttl |-> NoTtl],
           returned |-> FALSE, results |-> <<>>, value |-> Undefined,
           invoked |-> <<>>]

\* Clock reading when the page loads, and that of an earlier visit.
StartTime == 100

PriorVisitTime == 40

\* The id an earlier visit stored.
ClientIdB == <<"0", "1", "2", "3", "4", "5", "6", "7", "8", "9", "a", "b", "c", "d", "e", "f">>

\* What an earlier visit's setQx7Id left in the backends that outlive a
\* session.
PriorVisit ==
  setQx7Id([localStorage |-> <<>>, sessionStorage |-> <<>>,
            indexedDB |-> NoDatabase, cookies |-> <<>>, serviceWorker |-> <<>>,
            STORAGE_PRIORITIES |-> InitialStoragePriorities],
           Defined(ClientIdB), [priority |-> NoPriority, ttl |-> NoTtl],
           NoFaults, PriorVisitTime).self

ServerStart ==
  /\ req = [headers |-> NoHeaders, query |-> [rockmanId |-> ROCKMAN_ID]]
  /\ resolution = NoResolution
  /\ res = NoResponse
  /\ analytics = NoEvent
  /\ recoveries = {}

\* What a release that did not validate ids left in localStorage.
LegacyStorage == setItem(<<>>, QX7_ID_KEY, ShortId)

\* The page has loaded in a browser that failed as profile says.  prior:
\* "none" (a first visit), "visit" (the backends hold an earlier visit's
\* id) or "legacy" (localStorage holds a malformed id).
StorageStartWith(prior, profile) ==
  /\ localStorage = CASE prior = "visit" -> PriorVisit.localStorage
                      [] prior = "legacy" -> LegacyStorage
                      [] OTHER -> <<>>
  /\ sessionStorage = <<>>
  /\ indexedDB = IF prior = "visit" THEN PriorVisit.indexedDB ELSE NoDatabase
  /\ cookies = IF prior = "visit" THEN PriorVisit.cookies ELSE <<>>
  /\ serviceWorker = <<>>
  /\ STORAGE_PRIORITIES = InitialStoragePriorities
  /\ now = StartTime
  /\ faults = profile
  /\ calls = 0
  /\ lastCall = NoCall
  /\ writes = <<>>

\* The script has not run yet in a page whose browser APIs are as given.
PageStartWith(apisDenied, cacheKeys, worker) ==
  /\ denied = apisDenied
  /\ caches = cacheKeys
  /\ registration = worker
  /\ readers = [r \in Readers |-> NotReading]
  /\ detection = NoDetection
  /\ windowQx7Id = Undefined
  /\ fetch = FirstAttempt
  /\ posted = <<>>

\* An iframe that does not run this script, or none.
NoFrame == [pc |-> "none", windowQx7Id |-> Undefined, outbox |-> <<>>,
            taken |-> 0, received |-> 0]

\* The page is shown to a visitor whose incognito detector and whose
\* other windows are as given.
VisitorStartWith(incognitoDetector, windows) ==
  /\ detector = incognitoDetector
  /\ peers = windows
  /\ frame = NoFrame

ClientStartWith(prior, profile) ==
  /\ StorageStartWith(prior, profile)
  /\ PageStartWith({}, {}, "none")
  /\ VisitorStartWith("absent", {})

\* The page has loaded in a browser that has, or has not, visited before.
ClientStart(visited) ==
  ClientStartWith(IF visited THEN "visit" ELSE "none", NoFaults)

ServerInit == ServerStart /\ ClientStart(FALSE)

\* A client sets one header of the request it is assembling.
SetHeader ==
  \E n \in DOMAIN HeaderValues : \E v \in HeaderValues[n] :
    /\ res.status = 0
    /\ req' = [req EXCEPT !.headers =
                 [k \in DOMAIN req.headers \cup {n} |->
                    IF k = n THEN v ELSE req.headers[k]]]
    /\ UNCHANGED <<resolution, res, analytics, recoveries>>
    /\ UNCHANGED clientVars

\* After a response, a client starts assembling its next request.
NextRequest ==
  /\ res.status # 0
  /\ req' = [req EXCEPT !.headers = NoHeaders]
  /\ resolution' = NoResolution
  /\ res' = NoResponse
  /\ analytics' = NoEvent
  /\ UNCHANGED recoveries
  /\ UNCHANGED clientVars

\* One GET /onboarding-step1, from the request to the response.
OnboardingStep1 ==
  \E draw \in 1..NumRandomDraws, thrown \in BOOLEAN :
    \E r \in {incomingRequest(req.headers)}, entropy \in {RandomBytes(draw)},
       fallbackEntropy \in {RandomBytes((draw % NumRandomDraws) + 1)} :
      \E h \in {onboardingStep1(r, signalBundle(r), entropy, thrown,
                                fallbackEntropy)} :
        /\ res.status = 0
        /\ resolution' = h.resolution
        /\ res' = h.response
        /\ analytics' = h.event
        /\ recoveries' =
             IF h.resolution.persistenceMethod = "cognito-post-auth-recovery"
             THEN recoveries \cup
                    {<<req.headers[SentCognitoUserId], h.resolution.qx7Id.str>>}
             ELSE recoveries
        /\ UNCHANGED req
        /\ UNCHANGED clientVars

ServerNext == SetHeader \/ OnboardingStep1 \/ NextRequest

ServerSpec == ServerInit /\ [][ServerNext]_vars

(***************************************************************************)
(* The client's storage                                                    *)
(***************************************************************************)

\* Number of Qx7Storage calls in a behaviour.
MaxCalls == 1

\* Number of clock advances in a behaviour, and the length of one.
MaxTicks == 1

TickSeconds == 40

\* A ttl a caller may pass, in seconds.
ShortTtl == 60

\* The ways each backend may fail in a browser.
FaultValues ==
  [localStorage |-> 0..5, sessionStorage |-> 0..2,
   indexedDB |-> {"none", "open", "transaction"},
   cookies |-> BOOLEAN, controller |-> BOOLEAN]

IdArguments ==
  {Undefined, Defined(ShortId), Defined(NonHexId), Defined(ClientIdA)}

PriorityArguments ==
  {NoPriority, Option("cookies")}

TtlArguments == {NoTtl, Option(ShortTtl)}

StorageInit == ServerStart /\ \E visited \in BOOLEAN : ClientStart(visited)

\* Before the page's first call, the browser turns out to fail in one more
\* way, or to have a controlling worker.
Degrade ==
  \E backend \in DOMAIN FaultValues : \E fault \in FaultValues[backend] :
    /\ calls = 0
    /\ faults[backend] # fault
    /\ faults' = [faults EXCEPT ![backend] = fault]
    /\ UNCHANGED <<localStorage, sessionStorage, indexedDB, cookies,
                   serviceWorker, STORAGE_PRIORITIES, now, calls, lastCall,
                   writes>>
    /\ UNCHANGED pageVars
    /\ UNCHANGED serverVars

\* Time passes, at most limit times.
TickWithin(limit) ==
  /\ now < StartTime + limit * TickSeconds
  /\ now' = now + TickSeconds
  /\ lastCall' = [NoCall EXCEPT !.op = "tick"]
  /\ UNCHANGED <<localStorage, sessionStorage, indexedDB, cookies,
                 serviceWorker, STORAGE_PRIORITIES, faults, calls, writes>>
  /\ UNCHANGED pageVars
  /\ UNCHANGED serverVars

Tick == TickWithin(MaxTicks)

\* One call of Qx7Storage.setQx7Id, to its return, while fewer than limit
\* calls were made.
SetQx7IdWithin(limit) ==
  \E qx7Id \in IdArguments, priority \in PriorityArguments,
     ttl \in TtlArguments :
    \E options \in {[priority |-> priority, ttl |-> ttl]} :
      \E out \in {setQx7Id([localStorage |-> localStorage,
                            sessionStorage |-> sessionStorage,
                            indexedDB |-> indexedDB, cookies |-> cookies,
                            serviceWorker |-> serviceWorker,
                            STORAGE_PRIORITIES |-> STORAGE_PRIORITIES],
                           qx7Id, options, faults, now)} :
        /\ calls < limit
        /\ localStorage' = out.self.localStorage
        /\ sessionStorage' = out.self.sessionStorage
        /\ indexedDB' = out.self.indexedDB
        /\ cookies' = out.self.cookies
        /\ serviceWorker' = out.self.serviceWorker
        /\ STORAGE_PRIORITIES' = out.self.STORAGE_PRIORITIES
        /\ calls' = calls + 1
        /\ lastCall' = [NoCall EXCEPT !.op = "setQx7Id", !.qx7Id = qx7Id,
                                      !.options = options,
                                      !.returned = out.returned,
                                      !.results = out.results]
        /\ writes' = IF out.returned
                     THEN Append(writes,
                                 [qx7Id |-> qx7Id.str, timestamp |-> now,
                                  ttl |-> withDefault(ttl, DefaultTtl)])
                     ELSE writes
        /\ UNCHANGED <<now, faults>>
        /\ UNCHANGED pageVars
        /\ UNCHANGED serverVars

SetQx7Id == SetQx7IdWithin(MaxCalls)

StorageNext == Degrade \/ Tick \/ SetQx7Id

StorageSpec == StorageInit /\ [][StorageNext]_vars

(***************************************************************************)
(* The client's storage, written and read                                  *)
(***************************************************************************)

\* Number of Qx7Storage calls and of clock advances in a behaviour.
MaxReadCalls == 2

MaxReadTicks == 2

\* The browsers the page is read in.
FaultProfiles ==
  {NoFaults,
   [NoFaults EXCEPT !.controller = TRUE],
   [NoFaults EXCEPT !.localStorage = 1],
   [NoFaults EXCEPT !.localStorage = 3, !.controller = TRUE],
   [NoFaults EXCEPT !.indexedDB = "open"],
   [NoFaults EXCEPT !.indexedDB = "transaction"],
   [localStorage |-> 1, sessionStorage |-> 1, indexedDB |-> "open",
    cookies |-> TRUE, controller |-> TRUE]}

ReadInit ==
  /\ ServerStart
  /\ \E prior \in {"none", "visit", "legacy"}, profile \in FaultProfiles :
       ClientStartWith(prior, profile)

\* Qx7Storage and the backends it reads and writes.
Qx7Storage ==
  [localStorage |-> localStorage, sessionStorage |-> sessionStorage,
   indexedDB |-> indexedDB, cookies |-> cookies,
   serviceWorker |-> serviceWorker,
   STORAGE_PRIORITIES |-> STORAGE_PRIORITIES]

\* One call of Qx7Storage.getQx7Id, to its return, while fewer than limit
\* calls were made.
GetQx7IdWithin(limit) ==
  \E out \in {getQx7Id(Qx7Storage, faults, denied, now)} :
    /\ calls < limit
    /\ localStorage' = out.self.localStorage
    /\ indexedDB' = out.self.indexedDB
    /\ STORAGE_PRIORITIES' = out.self.STORAGE_PRIORITIES
    /\ calls' = calls + 1
    /\ lastCall' = [NoCall EXCEPT !.op = "getQx7Id", !.value = out.returned,
                                  !.invoked = out.invoked]
    /\ UNCHANGED <<sessionStorage, cookies, serviceWorker, now, faults,
                   writes>>
    /\ UNCHANGED pageVars
    /\ UNCHANGED serverVars

ReadTick == TickWithin(MaxReadTicks)

ReadSet == SetQx7IdWithin(MaxReadCalls)

ReadGet == GetQx7IdWithin(MaxReadCalls)

ReadNext == ReadTick \/ ReadSet \/ ReadGet

ReadSpec == ReadInit /\ [][ReadNext]_vars

(***************************************************************************)
(* getQx7Id await by await, two calls side by side                         *)
(***************************************************************************)

\* Number of Qx7Storage calls started in a behaviour.
MaxDemoteCalls == 3

\* The page loads in a browser whose database opens, or does not.
DemoteInit ==
  /\ ServerStart
  /\ \E prior \in {"none", "visit"},
        profile \in {NoFaults, [NoFaults EXCEPT !.indexedDB = "open"],
                     [NoFaults EXCEPT !.indexedDB = "open", !.cookies = TRUE]} :
       ClientStartWith(prior, profile)

\* getQx7Id is called: its loop takes this.STORAGE_PRIORITIES as it is now
\* and iterates that array to the end.
StartGetQx7Id(r) ==
  /\ readers[r].pc # "reading"
  /\ calls < MaxDemoteCalls
  /\ readers' = [readers EXCEPT ![r] =
                   [pc |-> "reading", methods |-> STORAGE_PRIORITIES, i |-> 1,
                    invoked |-> <<>>, value |-> Undefined]]
  /\ calls' = calls + 1
  /\ lastCall' = [NoCall EXCEPT !.op = "getQx7Id called"]
  /\ UNCHANGED <<backends, STORAGE_PRIORITIES, now, faults, writes>>
  /\ UNCHANGED <<browserVars, scriptVars>>
  /\ UNCHANGED serverVars

\* One round of the loop of a getQx7Id in progress: the adapter is awaited,
\* its value tested, its exception caught; the call returns on a hit and
\* after the last round.
AwaitAdapter(r) ==
  /\ readers[r].pc = "reading"
  /\ \E method \in {readers[r].methods[readers[r].i]} :
       \E c \in {consult(method, Qx7Storage, faults, denied, now)} :
         \E self \in {IF hit(c) THEN c.self
                      ELSE caught(method, c.thrown, c.self)} :
           /\ localStorage' = self.localStorage
           /\ indexedDB' = self.indexedDB
           /\ STORAGE_PRIORITIES' = self.STORAGE_PRIORITIES
           /\ readers' = [readers EXCEPT ![r] =
                            [pc |-> IF hit(c) \/ @.i = Len(@.methods)
                                    THEN "done" ELSE "reading",
                             methods |-> @.methods,
                             i |-> @.i + 1,
                             invoked |-> Append(@.invoked, method),
                             value |-> IF hit(c) THEN c.value ELSE Undefined]]
  /\ lastCall' = [NoCall EXCEPT !.op = "await"]
  /\ UNCHANGED <<sessionStorage, cookies, serviceWorker, now, faults, calls,
                 writes>>
  /\ UNCHANGED <<browserVars, scriptVars>>
  /\ UNCHANGED serverVars

\* indexedDB works again: the user has freed space or closed the tab that
\* blocked the database.
Repair ==
  /\ faults.indexedDB # "none"
  /\ calls > 0
  /\ faults' = [faults EXCEPT !.indexedDB = "none"]
  /\ lastCall' = [NoCall EXCEPT !.op = "repair"]
  /\ UNCHANGED <<backends, STORAGE_PRIORITIES, now, calls, writes>>
  /\ UNCHANGED pageVars
  /\ UNCHANGED serverVars

DemoteSet == SetQx7IdWithin(MaxDemoteCalls)

DemoteNext ==
  \/ \E r \in Readers : StartGetQx7Id(r)
  \/ \E r \in Readers : AwaitAdapter(r)
  \/ Repair
  \/ DemoteSet

DemoteSpec == DemoteInit /\ [][DemoteNext]_vars

(***************************************************************************)
(* The page's detection of cleared data                                    *)
(***************************************************************************)

\* Number of calls of detectQx7DataClearing in a behaviour.
MaxDetectCalls == 2

CacheName == "zkx-static-v1"

\* The page loads in a browser that forbids some of its APIs, has or has
\* not cached the site, and has or has not a worker registered.
DetectInit ==
  /\ ServerStart
  /\ \E prior \in {"none", "visit"} : StorageStartWith(prior, NoFaults)
  /\ \E apisDenied \in {{}, {"caches"}, {"sessionStorage"}, {"serviceWorker"},
                         {"localStorage", "sessionStorage"}},
        cacheKeys \in {{}, {CacheName}},
        worker \in {"unsupported", "none", "registered"} :
       PageStartWith(apisDenied, cacheKeys, worker)
  /\ VisitorStartWith("absent", {})

\* One call of detectQx7DataClearing, to its return.
DetectQx7DataClearing ==
  \E out \in {detectQx7DataClearing(Qx7Storage, caches, registration, faults,
                                     denied, now)} :
    /\ calls < MaxDetectCalls
    /\ detection' = detected(out.checks, positives(out.checks))
    /\ localStorage' = out.self.localStorage
    /\ sessionStorage' = out.self.sessionStorage
    /\ indexedDB' = out.self.indexedDB
    /\ STORAGE_PRIORITIES' = out.self.STORAGE_PRIORITIES
    /\ calls' = calls + 1
    /\ lastCall' = [NoCall EXCEPT !.op = "detectQx7DataClearing"]
    /\ UNCHANGED <<cookies, serviceWorker, now, faults, writes>>
    /\ UNCHANGED <<browserVars, readers, fetchVars>>
    /\ UNCHANGED serverVars

\* The user clears the site's data: storage, cookies, databases, caches.
ClearSiteData ==
  /\ calls > 0
  /\ <<localStorage, sessionStorage, cookies, caches>> # <<<<>>, <<>>, <<>>, {}>>
  /\ localStorage' = <<>>
  /\ sessionStorage' = <<>>
  /\ cookies' = <<>>
  /\ indexedDB' = NoDatabase
  /\ caches' = {}
  /\ lastCall' = [NoCall EXCEPT !.op = "clear"]
  /\ UNCHANGED <<serviceWorker, STORAGE_PRIORITIES, now, faults, calls, writes>>
  /\ UNCHANGED <<denied, registration, detector, peers, frame, readers,
                 scriptVars>>
  /\ UNCHANGED serverVars

\* The user closes the tab and opens the page in a new one.
NewTab ==
  /\ calls > 0
  /\ sessionStorage # <<>>
  /\ sessionStorage' = <<>>
  /\ lastCall' = [NoCall EXCEPT !.op = "new tab"]
  /\ UNCHANGED <<localStorage, indexedDB, cookies, serviceWorker,
                 STORAGE_PRIORITIES, now, faults, calls, writes>>
  /\ UNCHANGED pageVars
  /\ UNCHANGED serverVars

DetectNext == DetectQx7DataClearing \/ ClearSiteData \/ NewTab

DetectSpec == DetectInit /\ [][DetectNext]_vars

(***************************************************************************)
(* The page's acquisition of its id                                        *)
(***************************************************************************)

\* The page loads and calls fetchEnhancedZkx: in a browser that has or has
\* not visited, with or without a controlling worker, framed with an
\* iframe or alone, with or without an incognito detector.
FetchInit ==
  /\ ServerStart
  /\ \E prior \in {"none", "visit"},
        profile \in {NoFaults, [NoFaults EXCEPT !.controller = TRUE]} :
       StorageStartWith(prior, profile)
  /\ PageStartWith({}, {}, "none")
  /\ \E incognitoDetector \in {"absent", "normal", "incognito"},
        windows \in {{}, {"parent", "iframe"}} :
       VisitorStartWith(incognitoDetector, windows)

\* Qx7Storage and the backends become self.
StorageBecomes(self) ==
  /\ localStorage' = self.localStorage
  /\ sessionStorage' = self.sessionStorage
  /\ indexedDB' = self.indexedDB
  /\ cookies' = self.cookies
  /\ serviceWorker' = self.serviceWorker
  /\ STORAGE_PRIORITIES' = self.STORAGE_PRIORITIES

\* writes after a setQx7Id of qx7Id that returned as stored says.
Written(stored, qx7Id, ttl) ==
  IF stored.returned
  THEN Append(writes, [qx7Id |-> qx7Id, timestamp |-> now, ttl |-> ttl])
  ELSE writes

\* One round of the loop of fetchEnhancedZkx up to its request: the stored
\* id is read, the clearing of data detected, the request sent.
SendStep1 ==
  /\ fetch.pc = "ready"
  /\ \E read \in {getQx7Id(Qx7Storage, faults, denied, now)} :
       \E out \in {detectQx7DataClearing(read.self, caches, registration,
                                          faults, denied, now)} :
         \E result \in {detected(out.checks, positives(out.checks))} :
           /\ StorageBecomes(out.self)
           /\ detection' = result
           /\ req' = [headers |-> step1Headers(read.returned, result, detector),
                      query |-> [rockmanId |-> ROCKMAN_ID]]
  /\ resolution' = NoResolution
  /\ res' = NoResponse
  /\ analytics' = NoEvent
  /\ fetch' = [fetch EXCEPT !.pc = "step1", !.requests = @ + 1]
  /\ lastCall' = [NoCall EXCEPT !.op = "fetch step1"]
  /\ UNCHANGED <<recoveries, now, faults, calls, writes>>
  /\ UNCHANGED <<browserVars, readers, windowQx7Id, posted>>

\* The server handles the request of fetchEnhancedZkx.
ServeStep1 ==
  /\ fetch.pc = "step1"
  /\ OnboardingStep1

\* The request of fetchEnhancedZkx fails in the network: fetch rejects.
Step1Unanswered ==
  /\ fetch.pc = "step1"
  /\ res.status = 0
  /\ fetch' = afterFailure(fetch)
  /\ lastCall' = [NoCall EXCEPT !.op = "fetch failed"]
  /\ UNCHANGED <<backends, STORAGE_PRIORITIES, now, faults, calls, writes>>
  /\ UNCHANGED <<browserVars, readers, detection, windowQx7Id, posted>>
  /\ UNCHANGED serverVars

\* fetchEnhancedZkx from the response to the request of updateQx7IdImage:
\* a response that is not ok is thrown; the id of one that is ok is
\* persisted and synchronised unless the page is incognito, and set on the
\* window.
ReceiveStep1 ==
  /\ fetch.pc = "step1"
  /\ res.status # 0
  /\ IF ~ok(res)
     THEN /\ fetch' = afterFailure(fetch)
          /\ UNCHANGED <<backends, STORAGE_PRIORITIES, writes, windowQx7Id,
                         posted>>
          /\ UNCHANGED serverVars
     ELSE \E stored \in {persist(Qx7Storage, detector, res.body.qx7Id, faults,
                                  now)} :
            \E read \in {getQx7Id(stored.self, faults, denied, now)} :
              /\ StorageBecomes(read.self)
              /\ writes' = Written(stored, res.body.qx7Id, DefaultTtl)
              /\ posted' = IF detector = "incognito" THEN posted
                           ELSE syncWithOtherDomains(posted, peers,
                                                     res.body.qx7Id)
              /\ windowQx7Id' = Defined(res.body.qx7Id)
              /\ req' = [headers |-> step2Headers(read.returned),
                         query |-> [rockmanId |-> ROCKMAN_ID]]
              /\ resolution' = NoResolution
              /\ res' = NoResponse
              /\ analytics' = NoEvent
              /\ fetch' = [fetch EXCEPT !.pc = "step2",
                                        !.returned.data = res.body,
                                        !.returned.hasData = TRUE]
              /\ UNCHANGED recoveries
  /\ lastCall' = [NoCall EXCEPT !.op = "fetch answered"]
  /\ UNCHANGED <<now, faults, calls>>
  /\ UNCHANGED <<browserVars, readers, detection>>

\* One GET /onboarding-step2, from the request of updateQx7IdImage to the
\* response.
ServeStep2 ==
  \E draw \in 1..NumRandomDraws, thrown \in BOOLEAN :
    \E r \in {incomingRequest(req.headers)}, entropy \in {RandomBytes(draw)},
       fallbackEntropy \in {RandomBytes((draw % NumRandomDraws) + 1)} :
      \E h \in {onboardingStep2(r, signalBundle(r), entropy, thrown,
                                fallbackEntropy)} :
        /\ fetch.pc = "step2"
        /\ res.status = 0
        /\ resolution' = h.resolution
        /\ res' = h.response
        /\ analytics' = h.event
        /\ recoveries' =
             IF h.resolution.persistenceMethod = "cognito-post-auth-recovery"
             THEN recoveries \cup
                    {<<req.headers[SentCognitoUserId], h.resolution.qx7Id.str>>}
             ELSE recoveries
        /\ UNCHANGED req
        /\ UNCHANGED clientVars

\* fetchEnhancedZkx from the settling of updateQx7IdImage's request to its
\* return: an X-Qx7-id the response carries is stored and set on the
\* window, a request that failed is passed over; the storage health is
\* taken.
ReceiveStep2 ==
  /\ fetch.pc = "step2"
  /\ \E returnedQx7Id \in {res.xQx7Id} :
       \E stored \in {storeReturned(Qx7Storage, returnedQx7Id, faults, now)} :
         \E health \in {getStorageHealthStatus(stored.self, faults, denied)} :
           /\ StorageBecomes(health.self)
           /\ writes' = Written(stored, returnedQx7Id, DefaultTtl)
           /\ windowQx7Id' = IF returnedQx7Id # <<>> THEN Defined(returnedQx7Id)
                              ELSE windowQx7Id
           /\ fetch' = [fetch EXCEPT
                          !.pc = "returned",
                          !.returned = fetched(detection, @.data, health.returned)]
  /\ lastCall' = [NoCall EXCEPT !.op = "fetch returned"]
  /\ UNCHANGED <<now, faults, calls>>
  /\ UNCHANGED <<browserVars, readers, detection, posted>>
  /\ UNCHANGED serverVars

\* The wait of the catch block is over.
TimerFires ==
  /\ fetch.pc = "waiting"
  /\ now' = now + fetch.waits[Len(fetch.waits)]
  /\ fetch' = [fetch EXCEPT !.pc = "ready"]
  /\ lastCall' = [NoCall EXCEPT !.op = "timer"]
  /\ UNCHANGED <<backends, STORAGE_PRIORITIES, faults, calls, writes>>
  /\ UNCHANGED <<browserVars, readers, detection, windowQx7Id, posted>>
  /\ UNCHANGED serverVars

FetchNext ==
  \/ SendStep1
  \/ ServeStep1
  \/ Step1Unanswered
  \/ ReceiveStep1
  \/ ServeStep2
  \/ ReceiveStep2
  \/ TimerFires

FetchSpec == FetchInit /\ [][FetchNext]_vars

\* The browser runs every continuation and timer that is due, and every
\* request is answered or fails.
FetchFairSpec == FetchSpec /\ WF_vars(FetchNext)

(***************************************************************************)
(* fetchEnhancedZkx in a browser whose indexedDB.open fails for a while.   *)
(***************************************************************************)

RetryInit ==
  /\ ServerStart
  /\ \E prior \in {"none", "visit"},
        profile \in {[NoFaults EXCEPT !.indexedDB = "open"],
                     [NoFaults EXCEPT !.indexedDB = "open", !.controller = TRUE]} :
       StorageStartWith(prior, profile)
  /\ PageStartWith({}, {}, "none")
  /\ \E incognitoDetector \in {"absent", "normal"} :
       VisitorStartWith(incognitoDetector, {})

\* indexedDB.open stops failing, after getQx7Id has taken the adapter off
\* its list.
DatabaseRecovers ==
  /\ faults.indexedDB # "none"
  /\ STORAGE_PRIORITIES = withoutIndexedDB(InitialStoragePriorities)
  /\ faults' = [faults EXCEPT !.indexedDB = "none"]
  /\ lastCall' = [NoCall EXCEPT !.op = "recovered"]
  /\ UNCHANGED <<backends, STORAGE_PRIORITIES, now, calls, writes>>
  /\ UNCHANGED pageVars
  /\ UNCHANGED serverVars

RetryNext == FetchNext \/ DatabaseRecovers

RetrySpec == RetryInit /\ [][RetryNext]_vars

(***************************************************************************)
(* Visits: the page is loaded, fetchEnhancedZkx runs to its return, and    *)
(* the visitor loads the page again, in the same tab or in a new session.  *)
(***************************************************************************)

MaxReloads == 1

VisitInit ==
  /\ ServerStart
  /\ StorageStartWith("none", NoFaults)
  /\ \E cacheKeys \in {{}, {CacheName}},
        worker \in {"unsupported", "none", "registered"} :
       PageStartWith({}, cacheKeys, worker)
  /\ \E incognitoDetector \in {"absent", "normal"} :
       VisitorStartWith(incognitoDetector, {})

\* The page is loaded again after fetchEnhancedZkx has returned: the script
\* starts anew on the storage the last visit left; a new session starts
\* with an empty sessionStorage.
Reload ==
  /\ fetch.pc = "returned"
  /\ calls < MaxReloads
  /\ \E newSession \in BOOLEAN :
       sessionStorage' = IF newSession THEN <<>> ELSE sessionStorage
  /\ STORAGE_PRIORITIES' = InitialStoragePriorities
  /\ detection' = NoDetection
  /\ windowQx7Id' = Undefined
  /\ fetch' = FirstAttempt
  /\ posted' = <<>>
  /\ calls' = calls + 1
  /\ lastCall' = [NoCall EXCEPT !.op = "reload"]
  /\ UNCHANGED <<localStorage, indexedDB, cookies, serviceWorker, now, faults,
                 writes>>
  /\ UNCHANGED <<browserVars, readers>>
  /\ UNCHANGED serverVars

VisitNext == FetchNext \/ Reload

VisitSpec == VisitInit /\ [][VisitNext]_vars

(***************************************************************************)
(* The page after DOMContentLoaded: fetchEnhancedZkx runs, the message     *)
(* bridge is set up with what it returned, and other windows post          *)
(* messages to the page.                                                   *)
(***************************************************************************)

MaxMessages == 1

MessageTypes ==
  {NoType, "request-qx7-id", "sync-qx7-id", "check-data-cleared", "SYNC_QX7_ID",
   "sync_qx7_id"}

MessageIds == {Undefined, Defined(<<>>), Defined(NonHexId), Defined(ClientIdA)}

MessageSources == {"peer", "null"}

BridgeInit ==
  /\ ServerStart
  /\ \E prior \in {"none", "visit"} : StorageStartWith(prior, NoFaults)
  /\ PageStartWith({}, {}, "none")
  /\ \E windows \in {{}, {"parent"}} : VisitorStartWith("absent", windows)

\* setupQx7MsgBridge(context), context what fetchEnhancedZkx returned.
SetupQx7MsgBridge ==
  /\ fetch.pc = "returned"
  /\ fetch' = [fetch EXCEPT !.pc = "listening"]
  /\ posted' = announced(posted, peers, windowQx7Id, fetch.returned)
  /\ lastCall' = [NoCall EXCEPT !.op = "setupQx7MsgBridge"]
  /\ UNCHANGED <<backends, STORAGE_PRIORITIES, now, faults, calls, writes>>
  /\ UNCHANGED <<browserVars, readers, detection, windowQx7Id>>
  /\ UNCHANGED serverVars

\* One message event, from its dispatch to the return of the listener.
OnMessage ==
  /\ fetch.pc = "listening"
  /\ calls < MaxMessages
  /\ \E type \in MessageTypes, qx7Id \in MessageIds, source \in MessageSources :
       \E event \in {[type |-> type, qx7Id |-> qx7Id, source |-> source]} :
         \E out \in {onMessage(Qx7Storage, windowQx7Id, posted, event, caches,
                               registration, faults, denied, now)} :
           /\ StorageBecomes(out.handled.self)
           /\ windowQx7Id' = out.handled.windowQx7Id
           /\ posted' = out.handled.posted
           /\ detection' = IF type = "check-data-cleared"
                            THEN out.handled.cleared ELSE detection
           /\ writes' = IF out.handled.stored
                         THEN Append(writes, [qx7Id |-> qx7Id.str,
                                              timestamp |-> now,
                                              ttl |-> DefaultTtl])
                         ELSE writes
           /\ lastCall' = [op |-> "message", event |-> event,
                            thrown |-> out.handled.thrown,
                            escaped |-> out.escaped]
  /\ calls' = calls + 1
  /\ UNCHANGED <<now, faults>>
  /\ UNCHANGED <<browserVars, readers, fetch>>
  /\ UNCHANGED serverVars

BridgeNext == FetchNext \/ SetupQx7MsgBridge \/ OnMessage

BridgeSpec == BridgeInit /\ [][BridgeNext]_vars

(***************************************************************************)
(* Two contexts: the page and an iframe it embeds both run this script,    *)
(* each on its own storage.  The page is modelled in full; of the iframe,  *)
(* its DOMContentLoaded handler's progress, its window.qx7Id and its       *)
(* messages.  A message is dispatched some time after it was posted, in    *)
(* the order of posting; a window that has not added its listener yet      *)
(* lets it pass.                                                           *)
(***************************************************************************)

FrameStart == [NoFrame EXCEPT !.pc = "loading"]

\* The messages the page posted to its iframe.
ToFrame == SelectSeq(posted, LAMBDA m : m.to = "iframe")

SyncInit ==
  /\ ServerStart
  /\ StorageStartWith("none", NoFaults)
  /\ PageStartWith({}, {}, "none")
  /\ detector = "absent"
  /\ peers = {"iframe"}
  /\ frame = FrameStart

\* fetchEnhancedZkx of the iframe, with a response that is ok: the id the
\* server gave it is stored, sent to the parent by syncWithOtherDomains
\* and set on its window.
FrameAcquires ==
  /\ frame.pc = "loading"
  /\ \E draw \in 1..NumRandomDraws :
       \E qx7Id \in {generateQx7Id("random", [cognitoUserId |-> Undefined],
                                   RandomBytes(draw))} :
         frame' = [frame EXCEPT
                     !.pc = "acquired",
                     !.windowQx7Id = Defined(qx7Id),
                     !.outbox = syncWithOtherDomains(@, {"parent"}, qx7Id)]
  /\ lastCall' = [NoCall EXCEPT !.op = "frame acquired"]
  /\ UNCHANGED <<backends, STORAGE_PRIORITIES, now, faults, calls, writes>>
  /\ UNCHANGED <<denied, caches, registration, detector, peers, readers,
                 scriptVars>>
  /\ UNCHANGED serverVars

\* setupQx7MsgBridge of the iframe.
FrameSetsUpBridge ==
  /\ frame.pc = "acquired"
  /\ frame' = [frame EXCEPT
                 !.pc = "listening",
                 !.outbox = announced(@, {"parent"}, frame.windowQx7Id,
                                      [dataCleared |-> TRUE, hasData |-> FALSE,
                                       data |-> NoBody])]
  /\ lastCall' = [NoCall EXCEPT !.op = "frame listening"]
  /\ UNCHANGED <<backends, STORAGE_PRIORITIES, now, faults, calls, writes>>
  /\ UNCHANGED <<denied, caches, registration, detector, peers, readers,
                 scriptVars>>
  /\ UNCHANGED serverVars

\* The next message of the page is dispatched to the iframe: its listener,
\* once added, takes the id of a sync message that passes the test.
DeliverToFrame ==
  /\ frame.pc # "none"
  /\ frame.received < Len(ToFrame)
  /\ \E message \in {ToFrame[frame.received + 1]} :
       frame' = [frame EXCEPT
                   !.received = @ + 1,
                   !.windowQx7Id =
                     IF /\ frame.pc = "listening"
                        /\ message.type \in {"sync-qx7-id", "SYNC_QX7_ID"}
                        /\ accepted(Defined(message.qx7Id))
                     THEN Defined(message.qx7Id) ELSE @]
  /\ lastCall' = [NoCall EXCEPT !.op = "frame message"]
  /\ UNCHANGED <<backends, STORAGE_PRIORITIES, now, faults, calls, writes>>
  /\ UNCHANGED <<denied, caches, registration, detector, peers, readers,
                 scriptVars>>
  /\ UNCHANGED serverVars

\* The next message of the iframe is dispatched to the page: to its
\* listener once setupQx7MsgBridge has added it, to nothing before.
DeliverToPage ==
  /\ frame.taken < Len(frame.outbox)
  /\ frame' = [frame EXCEPT !.taken = @ + 1]
  /\ \E message \in {frame.outbox[frame.taken + 1]} :
       \E event \in {[type |-> message.type, qx7Id |-> Defined(message.qx7Id),
                       source |-> "peer"]} :
         IF fetch.pc = "listening"
         THEN \E out \in {onMessage(Qx7Storage, windowQx7Id, posted, event,
                                    caches, registration, faults, denied, now)} :
                /\ StorageBecomes(out.handled.self)
                /\ windowQx7Id' = out.handled.windowQx7Id
                /\ posted' = out.handled.posted
                /\ writes' = IF out.handled.stored
                              THEN Append(writes, [qx7Id |-> message.qx7Id,
                                                   timestamp |-> now,
                                                   ttl |-> DefaultTtl])
                              ELSE writes
                /\ lastCall' = [op |-> "message", event |-> event,
                                 thrown |-> out.handled.thrown,
                                 escaped |-> out.escaped]
         ELSE /\ lastCall' = [NoCall EXCEPT !.op = "no listener"]
              /\ UNCHANGED <<backends, STORAGE_PRIORITIES, writes, windowQx7Id,
                             posted>>
  /\ UNCHANGED <<now, faults, calls>>
  /\ UNCHANGED <<denied, caches, registration, detector, peers, readers,
                 detection, fetch>>
  /\ UNCHANGED serverVars

SyncNext ==
  \/ FetchNext
  \/ SetupQx7MsgBridge
  \/ FrameAcquires
  \/ FrameSetsUpBridge
  \/ DeliverToFrame
  \/ DeliverToPage

SyncSpec == SyncInit /\ [][SyncNext]_vars

(***************************************************************************)
(* Properties of the resolver and of onboarding-step1                      *)
(*                                                                         *)
(* The properties read the request as the client sent it and state the     *)
(* identifier format and the score thresholds on their own, not through    *)
(* the handlers' operators.                                                *)
(***************************************************************************)

\* The identifier format: hexadecimal, case-insensitive, 16 characters or more.
MatchesIdPattern(s) ==
  /\ Len(s) >= 16
  /\ \A i \in 1..Len(s) :
       s[i] \in {"0", "1", "2", "3", "4", "5", "6", "7", "8", "9",
                 "a", "b", "c", "d", "e", "f", "A", "B", "C", "D", "E", "F"}

Sent(n) == n \in DOMAIN req.headers

SentTrue(n) == Sent(n) /\ req.headers[n] = <<"t", "r", "u", "e">>

\* The integrity score a request states, in hundredths; -1 when it states
\* none or one that is no number.
SentScore ==
  IF ~Sent(SentSwIntegrityScore) THEN -1
  ELSE CASE req.headers[SentSwIntegrityScore] = <<"0", ".", "5">> -> 50
         [] req.headers[SentSwIntegrityScore] = <<"0", ".", "7">> -> 70
         [] req.headers[SentSwIntegrityScore] = <<"0", ".", "7", "1">> -> 71
         [] OTHER -> -1

\* If-None-Match without its surrounding double quotes.
StrippedEtag ==
  LET e == req.headers[SentIfNoneMatch]
  IN  IF Len(e) >= 2 /\ e[1] = "\"" /\ e[Len(e)] = "\""
      THEN [i \in 1..(Len(e) - 2) |-> e[i + 1]]
      ELSE e

\* resolveQx7IdAndMethod has returned for the current request.
Resolved == resolution.persistenceMethod # ""

\* The trusted-stored-id branch applies to the current request.
StoredIdTrusted ==
  /\ Sent(SentQx7Id)
  /\ MatchesIdPattern(req.headers[SentQx7Id])
  /\ ~SentTrue(SentDataCleared)

\* The ETag-recovery branch applies to the current request.
EtagTrusted ==
  /\ ~StoredIdTrusted
  /\ Sent(SentIfNoneMatch)
  /\ ~SentTrue(SentDataCleared)
  /\ MatchesIdPattern(StrippedEtag)

FreshRandomIds == {ToHex(RandomBytes(i)) : i \in 1..NumRandomDraws}

MethodEnumeration ==
  {"new", "localStorage", "localStorage-verified",
   "cognito-localStorage-verified", "etag", "etag-verified",
   "incognito-random", "limited-storage-random",
   "cognito-post-auth-recovery", "error-fallback"}

\* C1: a valid stored id with dataCleared false is returned as it is, with
\* isReturning true, whatever the other signals are.
C1_TrustedStoredId ==
  (Resolved /\ StoredIdTrusted) =>
    /\ resolution.qx7Id = [defined |-> TRUE, str |-> req.headers[SentQx7Id]]
    /\ resolution.isReturning

\* C1 witness: the stored id wins over a different valid ETag, a cognito
\* user returning from auth and the incognito flag.
C1_Witness ==
  /\ Resolved /\ StoredIdTrusted
  /\ Sent(SentIfNoneMatch) /\ MatchesIdPattern(StrippedEtag)
  /\ StrippedEtag # req.headers[SentQx7Id]
  /\ Sent(SentCognitoUserId) /\ SentTrue(SentReturningFromAuth)
  /\ SentTrue(SentIncognitoMode)
  /\ resolution.qx7Id.str = req.headers[SentQx7Id]

\* C2 (as claimed): every resolution of an incognito request is not
\* returning, is labelled incognito, and mints an id that is not the
\* client's X-Qx7-Id.
C2_IncognitoAlwaysFresh ==
  (Resolved /\ SentTrue(SentIncognitoMode)) =>
    /\ ~resolution.isReturning
    /\ resolution.persistenceMethod = "incognito-random"
    /\ resolution.qx7Id.str \in FreshRandomIds
    /\ (Sent(SentQx7Id) => resolution.qx7Id.str # req.headers[SentQx7Id])

\* C3: every resolution yields an id of the identifier format and a method
\* of the enumeration; a request without headers is answered 200 with a
\* 32-character id, method new, not returning.
C3_ResolutionTotal ==
  /\ Resolved =>
       /\ resolution.qx7Id.defined
       /\ MatchesIdPattern(resolution.qx7Id.str)
       /\ resolution.persistenceMethod \in MethodEnumeration
  /\ (res.status \in {200, 304} /\ DOMAIN req.headers = {}) =>
       /\ res.status = 200
       /\ Len(res.body.qx7Id) = 32
       /\ MatchesIdPattern(res.body.qx7Id)
       /\ res.body.persistenceMethod = "new"
       /\ ~res.body.isReturning

\* C3 witness: a request without headers has been answered.
C3_Witness ==
  /\ res.status = 200
  /\ DOMAIN req.headers = {}
  /\ res.body.qx7Id \in FreshRandomIds

\* C4: all cognito-post-auth-recovery resolutions of one cognitoUserId
\* return one id, and are returning.
C4_DeterministicRecovery ==
  /\ \A a, b \in recoveries : a[1] = b[1] => a[2] = b[2]
  /\ resolution.persistenceMethod = "cognito-post-auth-recovery" =>
       /\ resolution.isReturning
       /\ <<req.headers[SentCognitoUserId], resolution.qx7Id.str>> \in recoveries

\* C4 witness: both users have recovered, and a recovery happens again for
\* a request that also carries a stored id, an ETag, dataCleared and a score.
C4_Witness ==
  /\ Cardinality(recoveries) = 2
  /\ resolution.persistenceMethod = "cognito-post-auth-recovery"
  /\ Sent(SentQx7Id) /\ MatchesIdPattern(req.headers[SentQx7Id])
  /\ Sent(SentIfNoneMatch) /\ SentTrue(SentDataCleared)
  /\ SentScore = 71

\* C5: the label of the trusted-stored-id branch.
C5_StoredIdMethod ==
  (Resolved /\ StoredIdTrusted) =>
    resolution.persistenceMethod =
      IF Sent(SentCognitoUserId) THEN "cognito-localStorage-verified"
      ELSE IF SentScore > 70 THEN "localStorage-verified"
      ELSE "localStorage"

\* C5 witness: a stored id trusted at a score of exactly 0.7 and no cognito
\* user, labelled localStorage.
C5_Witness ==
  /\ Resolved /\ StoredIdTrusted
  /\ ~Sent(SentCognitoUserId)
  /\ SentScore = 70
  /\ resolution.persistenceMethod = "localStorage"

\* C6: without a trusted stored id and with dataCleared false, an
\* If-None-Match whose stripped value has the identifier format is returned
\* as the id, returning, labelled etag-verified above 0.5 and etag
\* otherwise; one that has not is never returned.
C6_EtagRecovery ==
  (Resolved /\ ~StoredIdTrusted /\ Sent(SentIfNoneMatch)
     /\ ~SentTrue(SentDataCleared)) =>
    IF MatchesIdPattern(StrippedEtag)
    THEN /\ resolution.qx7Id.str = StrippedEtag
         /\ resolution.isReturning
         /\ resolution.persistenceMethod =
              IF SentScore > 50 THEN "etag-verified" ELSE "etag"
    ELSE /\ resolution.qx7Id.str # StrippedEtag
         /\ resolution.persistenceMethod \in
              {"incognito-random", "limited-storage-random",
               "cognito-post-auth-recovery", "new"}

\* C6 witness: a quoted ETag recovered at a score of 0.7, beside a stored
\* id that is malformed.
C6_Witness ==
  /\ Resolved /\ EtagTrusted
  /\ Sent(SentQx7Id)
  /\ req.headers[SentIfNoneMatch] # StrippedEtag
  /\ SentScore = 70
  /\ resolution.persistenceMethod = "etag-verified"

\* C7: when neither trust branch applies, the privacy flags come first
\* (incognito before limited storage), then the cognito recovery, then new.
C7_BranchOrder ==
  (Resolved /\ ~StoredIdTrusted /\ ~EtagTrusted) =>
    IF SentTrue(SentIncognitoMode) \/ SentTrue(SentLimitedStorage)
    THEN /\ ~resolution.isReturning
         /\ resolution.qx7Id.str \in FreshRandomIds
         /\ resolution.persistenceMethod =
              IF SentTrue(SentIncognitoMode) THEN "incognito-random"
              ELSE "limited-storage-random"
    ELSE IF Sent(SentCognitoUserId) /\ SentTrue(SentReturningFromAuth)
    THEN /\ resolution.isReturning
         /\ resolution.persistenceMethod = "cognito-post-auth-recovery"
    ELSE /\ ~resolution.isReturning
         /\ resolution.persistenceMethod = "new"

\* C7 witness: limited storage alone set, with a cognito user returning
\* from auth: the id is random all the same.
C7_Witness ==
  /\ Resolved /\ ~StoredIdTrusted /\ ~EtagTrusted
  /\ ~SentTrue(SentIncognitoMode) /\ SentTrue(SentLimitedStorage)
  /\ Sent(SentCognitoUserId) /\ SentTrue(SentReturningFromAuth)
  /\ resolution.persistenceMethod = "limited-storage-random"

Stored == lastCall.op = "setQx7Id"

StoredId == lastCall.qx7Id.str

StoredValidId == lastCall.qx7Id.defined /\ MatchesIdPattern(StoredId)

\* The backends of the active list.
ActiveBackends ==
  {STORAGE_PRIORITIES[i] : i \in DOMAIN STORAGE_PRIORITIES}

\* The browser lets a write to the backend through.
WriteSucceeds(backend) ==
  CASE backend = "localStorage" -> faults.localStorage = 0
    [] backend = "sessionStorage" -> faults.sessionStorage = 0
    [] backend = "indexedDB" -> faults.indexedDB = "none"
    [] backend = "cookies" -> ~faults.cookies
    [] backend = "serviceWorker" -> faults.controller

\* The backend holds the id of the call just made.
Holds(backend) ==
  CASE backend = "localStorage" ->
         /\ {"zkx_qx7_id", "qx7_id_backup", "session_data", "zkx_qx7_id_meta",
             "zkx_qx7_id_expires"} \subseteq DOMAIN localStorage
         /\ localStorage["zkx_qx7_id"] = StoredId
         /\ localStorage["qx7_id_backup"] = StoredId
         /\ localStorage["session_data"] = StoredId
    [] backend = "sessionStorage" ->
         /\ "zkx_qx7_id" \in DOMAIN sessionStorage
         /\ sessionStorage["zkx_qx7_id"] = StoredId
    [] backend = "indexedDB" ->
         \E r \in indexedDB.qx7data : r.id = StoredId /\ r.timestamp = now
    [] backend = "cookies" ->
         /\ "zkx_qx7_id" \in DOMAIN cookies
         /\ SubSeq(cookies["zkx_qx7_id"].value, 1, Len(StoredId) + 3)
              = StoredId \o <<"%", "7", "C">>
    [] backend = "serviceWorker" ->
         /\ serviceWorker # <<>>
         /\ serviceWorker[Len(serviceWorker)].qx7Id = StoredId
         /\ serviceWorker[Len(serviceWorker)].metadata.timestamp = now

\* C9: setQx7Id with priority 'all' and a valid id attempts every backend
\* of the active list, returns true exactly when the write of at least one
\* of them succeeds, and every write that succeeds takes effect whichever
\* of the others fail.
C9_PartialSuccess ==
  (Stored /\ StoredValidId /\ ~lastCall.options.priority.defined) =>
    /\ lastCall.returned <=> \E b \in ActiveBackends : WriteSucceeds(b)
    /\ {lastCall.results[i].adapter : i \in DOMAIN lastCall.results}
         = ActiveBackends
    /\ Len(lastCall.results) = Cardinality(ActiveBackends)
    /\ \A b \in ActiveBackends : WriteSucceeds(b) => Holds(b)

\* C9 witness: localStorage throws half way, sessionStorage throws,
\* indexedDB rejects, no worker controls the page; the cookie alone is
\* written and setQx7Id returns true.
C9_Witness ==
  /\ Stored /\ StoredValidId /\ ~lastCall.options.priority.defined
  /\ faults.localStorage = 3
  /\ faults.sessionStorage = 1
  /\ faults.indexedDB = "transaction"
  /\ ~faults.controller
  /\ ~faults.cookies
  /\ lastCall.returned
  /\ Holds("cookies")

\* C10: setQx7Id with an id that is not of the identifier format returns
\* false and changes no backend and not the active list.
C10_InvalidIdRejected ==
  [][(calls' = calls + 1 /\ lastCall'.op = "setQx7Id"
        /\ ~(lastCall'.qx7Id.defined /\ MatchesIdPattern(lastCall'.qx7Id.str)))
       => /\ ~lastCall'.returned
          /\ UNCHANGED <<localStorage, sessionStorage, indexedDB, cookies,
                         serviceWorker, STORAGE_PRIORITIES>>]_vars

\* C10 witness: a 16-character id with a non-hexadecimal character has been
\* refused in a browser that holds an earlier visit's id and whose backends
\* all work.
C10_Witness ==
  /\ Stored
  /\ lastCall.qx7Id = [defined |-> TRUE, str |-> NonHexId]
  /\ ~lastCall.returned
  /\ faults.localStorage = 0 /\ faults.sessionStorage = 0
  /\ faults.indexedDB = "none" /\ ~faults.cookies /\ faults.controller
  /\ "zkx_qx7_id" \in DOMAIN localStorage
  /\ localStorage["zkx_qx7_id"] = ClientIdB
  /\ sessionStorage = <<>>
  /\ serviceWorker = <<>>

(***************************************************************************)
(* Properties of Qx7Storage.getQx7Id                                       *)
(*                                                                         *)
(* What an adapter keeps and whether the browser lets it be read are read  *)
(* from the backends and the browser's faults before the call; what the    *)
(* call did is read from lastCall after it.                                *)
(***************************************************************************)

\* The step is a call of getQx7Id, to its return.
ReadStep == calls' = calls + 1 /\ lastCall'.op = "getQx7Id"

\* The step is a call of setQx7Id, to its return.
WriteStep == calls' = calls + 1 /\ lastCall'.op = "setQx7Id"

\* The ids the adapter keeps under the identifier's key, read or not: one
\* or none.  Nothing the page can read is kept by the worker.
Kept(method) ==
  CASE method = "localStorage" ->
         IF "zkx_qx7_id" \in DOMAIN localStorage
         THEN {localStorage["zkx_qx7_id"]} ELSE {}
    [] method = "sessionStorage" ->
         IF "zkx_qx7_id" \in DOMAIN sessionStorage
         THEN {sessionStorage["zkx_qx7_id"]} ELSE {}
    [] method = "indexedDB" ->
         {r.id : r \in {n \in indexedDB.qx7data :
                          \A o \in indexedDB.qx7data : n.timestamp >= o.timestamp}}
    [] method = "cookies" ->
         IF "zkx_qx7_id" \in DOMAIN cookies
         THEN {firstField(cookies["zkx_qx7_id"].value, "%")} ELSE {}
    [] method = "serviceWorker" -> {}

\* The adapter keeps an id of the identifier format.
KeepsValidId(method) == \E id \in Kept(method) : MatchesIdPattern(id)

\* The record the adapter keeps is past the expiry the adapter tests.
PastExpiry(method) ==
  CASE method = "localStorage" ->
         /\ "zkx_qx7_id_expires" \in DOMAIN localStorage
         /\ localStorage["zkx_qx7_id_expires"] # <<>>
         /\ nowAfter(now, parseInt(localStorage["zkx_qx7_id_expires"]))
    [] method = "cookies" ->
         /\ "zkx_qx7_id" \in DOMAIN cookies
         /\ cookies["zkx_qx7_id"].expires <= now
    [] OTHER -> FALSE

\* The browser lets the adapter read its backend.
ReadSucceeds(method) ==
  CASE method = "localStorage" -> ~("localStorage" \in denied)
    [] method = "sessionStorage" -> ~("sessionStorage" \in denied)
    [] method = "indexedDB" -> faults.indexedDB = "none"
    [] method = "cookies" -> ~faults.cookies
    [] method = "serviceWorker" -> TRUE

\* A read of the adapter yields an id of the identifier format.
YieldsValidId(method) ==
  KeepsValidId(method) /\ ~PastExpiry(method) /\ ReadSucceeds(method)

\* The first position of the active list whose adapter satisfies P, 0 when
\* none does.
FirstActive(P(_)) ==
  IF \E i \in DOMAIN STORAGE_PRIORITIES : P(STORAGE_PRIORITIES[i])
  THEN CHOOSE i \in DOMAIN STORAGE_PRIORITIES :
         /\ P(STORAGE_PRIORITIES[i])
         /\ \A j \in 1..(i - 1) : ~P(STORAGE_PRIORITIES[j])
  ELSE 0

\* The call of this step consulted the active list in order up to its
\* position first, returned what that adapter keeps and stopped there; all
\* of the list and null when first is 0.
ReadStoppedAt(first) ==
  IF first = 0
  THEN /\ lastCall'.value = Undefined
       /\ lastCall'.invoked = STORAGE_PRIORITIES
  ELSE /\ lastCall'.value.defined
       /\ lastCall'.value.str \in Kept(STORAGE_PRIORITIES[first])
       /\ lastCall'.invoked = SubSeq(STORAGE_PRIORITIES, 1, first)

\* The active list is the fixed order, with or without indexedDB.
FixedOrder ==
  STORAGE_PRIORITIES \in
    {<<"localStorage", "sessionStorage", "indexedDB", "cookies", "serviceWorker">>,
     <<"localStorage", "sessionStorage", "cookies", "serviceWorker">>}

\* The call of this step returned null or an id of the identifier format.
ReadNullOrValid ==
  \/ lastCall'.value = Undefined
  \/ lastCall'.value.defined /\ MatchesIdPattern(lastCall'.value.str)

\* C11 (as claimed): getQx7Id consults the adapters in the fixed order and
\* returns the value of the first adapter that holds an id of the
\* identifier format, without invoking a later one; the result is null or
\* such an id.
C11_FirstHolder ==
  [][ReadStep => /\ FixedOrder
                 /\ ReadStoppedAt(FirstActive(KeepsValidId))
                 /\ ReadNullOrValid]_vars

\* C11 (amended): getQx7Id consults the adapters in the fixed order and
\* returns the value of the first adapter whose read yields an id of the
\* identifier format -- one it keeps, not past the expiry that localStorage
\* and the cookie test, in a backend the browser lets it read -- without
\* invoking a later one; an adapter whose value is missing, malformed,
\* expired or unreadable is skipped; the result is null or such an id.
C11_FirstReadable ==
  [][ReadStep => /\ FixedOrder
                 /\ ReadStoppedAt(FirstActive(YieldsValidId))
                 /\ ReadNullOrValid]_vars

\* C11 witness: localStorage keeps a malformed id that a failed write left
\* in place, and the read returns the id of sessionStorage without
\* consulting indexedDB, the cookie or the worker.
C11_Witness ==
  /\ lastCall.op = "getQx7Id"
  /\ "zkx_qx7_id" \in DOMAIN localStorage
  /\ localStorage["zkx_qx7_id"] = ShortId
  /\ lastCall.value = [defined |-> TRUE, str |-> ClientIdA]
  /\ lastCall.invoked = <<"localStorage", "sessionStorage">>
  /\ "zkx_qx7_id" \in DOMAIN cookies

\* The last call of setQx7Id that returned true.
LastWrite == writes[Len(writes)]

\* C12 (as claimed): once the clock has passed write time + ttl of the last
\* setQx7Id, no getQx7Id returns its id from any backend, and the read
\* that finds the localStorage record expired removes it.
C12_ExpiredNeverReturned ==
  [][(ReadStep /\ writes # <<>>
        /\ now > LastWrite.timestamp + LastWrite.ttl)
       => /\ lastCall'.value # [defined |-> TRUE, str |-> LastWrite.qx7Id]
          /\ PastExpiry("localStorage") =>
               ~("zkx_qx7_id" \in DOMAIN localStorage')]_vars

\* C13 (as claimed): a getQx7Id that immediately follows a setQx7Id of a
\* valid id that returned true returns that id, whatever the backends held
\* before and however they fail.
C13_RoundTrip ==
  [][(ReadStep /\ lastCall.op = "setQx7Id" /\ lastCall.returned
        /\ lastCall.options = NoCall.options)
       => lastCall'.value = lastCall.qx7Id]_vars

\* The backends of the active list after the step.
ActiveBackendsAfter ==
  {STORAGE_PRIORITIES'[i] : i \in DOMAIN STORAGE_PRIORITIES'}

\* The setQx7Id of this step called the indexedDB adapter, which failed.
IndexedDBWriteFailed ==
  /\ WriteStep
  /\ \E i \in DOMAIN lastCall'.results :
       /\ lastCall'.results[i].adapter = "indexedDB"
       /\ lastCall'.results[i].status = "rejected"

\* C14 (as claimed): a setQx7Id whose indexedDB write fails (open error,
\* version mismatch or transaction error) removes indexedDB from the active
\* list.
C14_DemotionOnWrite ==
  [][IndexedDBWriteFailed => ~("indexedDB" \in ActiveBackendsAfter)]_vars

(***************************************************************************)
(* Properties of the demotion of indexedDB                                 *)
(***************************************************************************)

WithoutIndexedDB == <<"localStorage", "sessionStorage", "cookies", "serviceWorker">>

\* The step is a round of r's getQx7Id in which the indexedDB adapter
\* rejects: the browser fails the open request.
IndexedDBReadFailed(r) ==
  /\ readers[r].pc = "reading"
  /\ readers[r].methods[readers[r].i] = "indexedDB"
  /\ readers'[r].i = readers[r].i + 1
  /\ faults.indexedDB = "open"

\* The step is a call of getQx7Id by r.
ReadStarts(r) ==
  /\ calls' = calls + 1
  /\ readers[r].pc # "reading"
  /\ readers'[r].pc = "reading"

\* C15: when the indexedDB adapter rejects during getQx7Id, that read goes
\* on with cookies and then serviceWorker (it ends at the cookie if the
\* cookie yields a valid id) and indexedDB leaves the active list; no step
\* puts it back; the list keeps the order of the other backends; every
\* getQx7Id called afterwards, also two of them side by side, iterates the
\* list without indexedDB and every setQx7Id called afterwards leaves the
\* indexedDB adapter out.
C15_DemotionOnRead ==
  [][/\ \A r \in Readers :
          /\ IndexedDBReadFailed(r) =>
               /\ ~("indexedDB" \in ActiveBackendsAfter)
               /\ readers'[r].pc = "reading"
               /\ SubSeq(readers'[r].methods, readers'[r].i,
                         Len(readers'[r].methods)) = <<"cookies", "serviceWorker">>
          /\ (readers'[r].pc = "done" /\ faults.indexedDB = "open"
                /\ \E k \in DOMAIN readers'[r].invoked :
                     readers'[r].invoked[k] = "indexedDB") =>
               \/ /\ readers'[r].value.defined
                  /\ readers'[r].value.str \in Kept("cookies")
                  /\ readers'[r].invoked[Len(readers'[r].invoked)] = "cookies"
               \/ /\ ~readers'[r].value.defined
                  /\ SubSeq(readers'[r].invoked, Len(readers'[r].invoked) - 1,
                            Len(readers'[r].invoked)) = <<"cookies", "serviceWorker">>
          /\ (ReadStarts(r) /\ ~("indexedDB" \in ActiveBackends)) =>
               readers'[r].methods = WithoutIndexedDB
          /\ readers'[r].invoked =
               SubSeq(readers'[r].methods, 1, Len(readers'[r].invoked))
     /\ ~("indexedDB" \in ActiveBackends) => STORAGE_PRIORITIES' = WithoutIndexedDB
     /\ STORAGE_PRIORITIES' \in {InitialStoragePriorities, WithoutIndexedDB}
     /\ (WriteStep /\ ~("indexedDB" \in ActiveBackends)) =>
          /\ \A k \in DOMAIN lastCall'.results :
               lastCall'.results[k].adapter # "indexedDB"
          /\ indexedDB' = indexedDB]_vars

\* C15 witness: two calls of getQx7Id are in progress in a browser that
\* held no id; the open request of the one failed and it went on to the
\* cookie; the other, called after that failure and after indexedDB was
\* repaired, is past sessionStorage on a list without indexedDB; a
\* setQx7Id has returned true and the database holds nothing.
C15_Witness ==
  \E r, o \in Readers :
    /\ r # o
    /\ readers[r].invoked = SubSeq(InitialStoragePriorities, 1, 4)
    /\ readers[r].pc = "reading"
    /\ readers[o].pc = "reading"
    /\ readers[o].methods = WithoutIndexedDB
    /\ readers[o].i = 3
    /\ faults.indexedDB = "none"
    /\ STORAGE_PRIORITIES = WithoutIndexedDB
    /\ writes # <<>>
    /\ indexedDB.qx7data = {}

(***************************************************************************)
(* Properties of detectQx7DataClearing                                     *)
(*                                                                         *)
(* Which probes are positive is read from the browser before the call.     *)
(***************************************************************************)

\* The step is a call of detectQx7DataClearing, to its return.
DetectStep == calls' = calls + 1 /\ lastCall'.op = "detectQx7DataClearing"

\* The service-worker probe is run, that is, pushes a check: a worker is
\* registered, or asking for the registration throws.
WorkerProbeRun ==
  /\ registration # "unsupported"
  /\ "serviceWorker" \in denied \/ registration = "registered"

\* The probes that are positive: no readable id, no session mark, no start
\* mark, no cache, and the worker probe whenever it is run; a probe whose
\* API throws is positive.
PositiveProbes ==
  {p \in {"id", "session", "start", "cache", "worker"} :
     CASE p = "id" -> FirstActive(YieldsValidId) = 0
       [] p = "session" -> \/ "sessionStorage" \in denied
                           \/ ~("active-session" \in DOMAIN sessionStorage)
       [] p = "start" -> \/ "localStorage" \in denied
                         \/ ~("session-start-time" \in DOMAIN localStorage)
       [] p = "cache" -> "caches" \in denied \/ caches = {}
       [] p = "worker" -> WorkerProbeRun}

ProbesRun == IF WorkerProbeRun THEN 5 ELSE 4

\* C16: detectQx7DataClearing returns dataCleared exactly when two or more
\* probes are positive, whatever number of probes was run, and confidence
\* as the positive probes over the probes run; two positive probes give
\* true, one gives false; a probe that throws is positive.
C16_FixedThreshold ==
  [][DetectStep =>
       /\ detection'.dataCleared <=> Cardinality(PositiveProbes) >= 2
       /\ detection'.clearedCount = Cardinality(PositiveProbes)
       /\ detection'.totalChecks = ProbesRun
       /\ detection'.confidence.den > 0
       /\ detection'.confidence.num * ProbesRun
            = Cardinality(PositiveProbes) * detection'.confidence.den
       /\ Cardinality(PositiveProbes) = 2 => detection'.dataCleared
       /\ Cardinality(PositiveProbes) = 1 => ~detection'.dataCleared]_vars

\* C16 witness: two of five probes were positive, the worker probe and the
\* cache probe, whose API throws although the site is cached: dataCleared
\* is true at a confidence of two fifths.
C16_Witness ==
  /\ lastCall.op = "detectQx7DataClearing"
  /\ detection.clearedCount = 2
  /\ detection.totalChecks = 5
  /\ detection.dataCleared
  /\ detection.checks = <<FALSE, FALSE, FALSE, TRUE, TRUE>>
  /\ "caches" \in denied
  /\ caches # {}

(***************************************************************************)
(* Properties of fetchEnhancedZkx                                          *)
(***************************************************************************)

\* The ids the backends hold, each with the place that holds it.
IdsHeld ==
  {<<k, localStorage[k]>> :
     k \in DOMAIN localStorage \cap {"zkx_qx7_id", "qx7_id_backup", "session_data"}}
  \cup {<<"sessionStorage", sessionStorage[k]>> :
          k \in DOMAIN sessionStorage \cap {"zkx_qx7_id"}}
  \cup {<<"indexedDB", r.id>> : r \in indexedDB.qx7data}
  \cup {<<"cookies", cookies[k].value>> : k \in DOMAIN cookies \cap {"zkx_qx7_id"}}
  \cup {<<"serviceWorker", serviceWorker[k].qx7Id>> : k \in DOMAIN serviceWorker}

\* fetchEnhancedZkx has not had a response that was ok.
NoSuccessYet == fetch.pc \in {"ready", "step1", "waiting"} \/ fetch.attempt = 3

\* The step is fetchEnhancedZkx taking up the outcome of its request: a
\* response, or none when the network failed.
Step1Settles == fetch.pc = "step1" /\ fetch' # fetch

\* C17: fetchEnhancedZkx returns; it sends at most three onboarding-step1
\* requests; it waits 2 s after the first failure and 4 s after the second
\* and not after the third; a request without response and a response
\* whose status is not 2xx are failures; after the third it returns the
\* degraded result, and no id was written to a backend or to window.qx7Id.
C17_BoundedRetry ==
  /\ [](/\ fetch.requests <= 3
        /\ fetch.waits = SubSeq(<<2, 4>>, 1, IF fetch.attempt < 2
                                            THEN fetch.attempt ELSE 2)
        /\ NoSuccessYet => windowQx7Id = [defined |-> FALSE, str |-> <<>>]
                             /\ writes = <<>>
        /\ fetch.attempt = 3 =>
             /\ fetch.pc = "returned"
             /\ fetch.requests = 3
             /\ fetch.returned =
                  [dataCleared |-> TRUE, hasData |-> FALSE, data |-> NoBody,
                   confidence |-> [num |-> 0, den |-> 1],
                   storageHealth |-> "degraded"])
  /\ [][/\ Step1Settles =>
             (fetch'.attempt = fetch.attempt + 1
                <=> (res.status = 0 \/ res.status < 200 \/ res.status > 299))
        /\ (NoSuccessYet /\ NoSuccessYet') => IdsHeld' \subseteq IdsHeld]_vars
  /\ <>(fetch.pc = "returned")

\* C17 witness: fetchEnhancedZkx has returned the degraded result after
\* three requests, the last answered 500, in a browser that holds an
\* earlier visit's id and nothing else.
C17_Witness ==
  /\ fetch.pc = "returned"
  /\ fetch.attempt = 3
  /\ fetch.requests = 3
  /\ fetch.waits = <<2, 4>>
  /\ fetch.returned.storageHealth = "degraded"
  /\ res.status = 500
  /\ now = StartTime + 6
  /\ windowQx7Id = [defined |-> FALSE, str |-> <<>>]
  /\ "zkx_qx7_id" \in DOMAIN cookies
  /\ IdsHeld = {<<"zkx_qx7_id", ClientIdB>>, <<"qx7_id_backup", ClientIdB>>,
                <<"session_data", ClientIdB>>, <<"indexedDB", ClientIdB>>,
                <<"cookies", cookies["zkx_qx7_id"].value>>}

\* C18: in a run of fetchEnhancedZkx on a page whose incognito detector
\* reports isIncognito = true, no step stores an id in a backend, the step
\* that takes up the onboarding-step2 response included, and no step posts
\* a sync message to another context.
C18_IncognitoNeverPersists ==
  [][detector = "incognito" =>
       /\ IdsHeld' \subseteq IdsHeld
       /\ writes' = writes
       /\ posted' = posted]_vars

(***************************************************************************)
(* Properties of the message bridge                                        *)
(***************************************************************************)

\* The step is the listener handling one message event.
MessageStep == calls' = calls + 1 /\ lastCall'.op = "message"

SyncType(type) == type \in {"sync-qx7-id", "SYNC_QX7_ID"}

RecognizedType(type) ==
  type \in {"request-qx7-id", "sync-qx7-id", "check-data-cleared", "SYNC_QX7_ID"}

PassesValidator(id) == id.defined /\ MatchesIdPattern(id.str)

\* The step stored id in every backend of priority "all" (in the database
\* when it can be upgraded or has its stores) and made it the window's id.
PersistedEverywhere(id) ==
  /\ {<<"zkx_qx7_id", id>>, <<"qx7_id_backup", id>>, <<"session_data", id>>,
      <<"sessionStorage", id>>} \subseteq IdsHeld'
  /\ (/\ \E i \in DOMAIN STORAGE_PRIORITIES :
            STORAGE_PRIORITIES[i] = "indexedDB"
      /\ \/ indexedDB.version < 2
         \/ {"qx7data", "metadata"} \subseteq indexedDB.objectStoreNames)
       => <<"indexedDB", id>> \in IdsHeld'
  /\ getFromCookies(cookies', now', FALSE).value = [defined |-> TRUE, str |-> id]
  /\ writes' = Append(writes, [qx7Id |-> id, timestamp |-> now,
                               ttl |-> 365 * 24 * 60 * 60])
  /\ windowQx7Id' = [defined |-> TRUE, str |-> id]

\* C19: a message of type sync-qx7-id or SYNC_QX7_ID whose id passes the
\* Validator, whatever its sender, is persisted with priority "all" and
\* becomes window.qx7Id; a message of these types whose id is missing or
\* fails the Validator, a message without type and a message of a type the
\* listener does not know leave window.qx7Id and every backend as they
\* were and post no reply; no error leaves the listener.
C19_SyncBridge ==
  [][MessageStep =>
       /\ ~lastCall'.escaped
       /\ SyncType(lastCall'.event.type) /\ PassesValidator(lastCall'.event.qx7Id)
            => PersistedEverywhere(lastCall'.event.qx7Id.str) /\ posted' = posted
       /\ \/ SyncType(lastCall'.event.type)
               /\ ~PassesValidator(lastCall'.event.qx7Id)
          \/ ~RecognizedType(lastCall'.event.type)
          => UNCHANGED <<windowQx7Id, backends, STORAGE_PRIORITIES, posted>>]_vars

\* C19 witness: a sync-qx7-id message whose sender's window is gone has
\* replaced the id the server gave by its own in the backends and on the
\* window.
C19_Witness ==
  /\ lastCall.op = "message"
  /\ lastCall.event = [type |-> "sync-qx7-id",
                       qx7Id |-> [defined |-> TRUE, str |-> ClientIdA],
                       source |-> "null"]
  /\ windowQx7Id = [defined |-> TRUE, str |-> ClientIdA]
  /\ Len(writes) = 3
  /\ writes[1].qx7Id # ClientIdA
  /\ writes[3].qx7Id = ClientIdA
  /\ localStorage["zkx_qx7_id"] = ClientIdA
  /\ "qx7-sync-timestamp" \in DOMAIN localStorage

(***************************************************************************)
(* Properties of the expiry of the localStorage record                     *)
(***************************************************************************)

\* localStorage holds id under the identifier's key, with an expiry.
RecordOf(id) ==
  /\ {"zkx_qx7_id", "zkx_qx7_id_expires"} \subseteq DOMAIN localStorage
  /\ localStorage["zkx_qx7_id"] = id

\* id was stored before now by a setQx7Id of time to live ttl.
StoredEarlier(id, ttl) ==
  \E i \in DOMAIN writes :
    /\ writes[i].qx7Id = id
    /\ writes[i].ttl = ttl
    /\ writes[i].timestamp < now

\* C20: a setQx7Id of an id that an earlier setQx7Id of the same time to
\* live stored leaves the expiry of the record where the first write put
\* it.
C20_ExpiryFixedAtFirstWrite ==
  [][(/\ WriteStep
      /\ lastCall'.returned
      /\ ~lastCall'.options.priority.defined
      /\ RecordOf(lastCall'.qx7Id.str)
      /\ StoredEarlier(lastCall'.qx7Id.str,
                       IF lastCall'.options.ttl.defined
                       THEN lastCall'.options.ttl.value ELSE 365 * 24 * 60 * 60)
      /\ "zkx_qx7_id_expires" \in DOMAIN localStorage')
       => localStorage'["zkx_qx7_id_expires"] = localStorage["zkx_qx7_id_expires"]]_vars

(***************************************************************************)
(* Properties of a completed acquisition                                   *)
(***************************************************************************)

\* fetchEnhancedZkx has returned a result that is not the degraded one.
Acquired == fetch.pc = "returned" /\ fetch.returned.hasData

\* C21: when fetchEnhancedZkx has returned a result that is not degraded,
\* window.qx7Id is the id of the returned data, and on a page that is not
\* incognito and has stored an id in some backend, getQx7Id returns that
\* id too.
C21_ConsistentAfterAcquisition ==
  Acquired =>
    /\ windowQx7Id = [defined |-> TRUE, str |-> fetch.returned.data.qx7Id]
    /\ (detector # "incognito" /\ writes # <<>>)
         => getQx7Id(Qx7Storage, faults, denied, now).returned
              = [defined |-> TRUE, str |-> fetch.returned.data.qx7Id]

\* C22: on a visit after one that acquired and persisted an id, with
\* nothing cleared and nothing expired, the onboarding-step1 request
\* carries that id and X-Data-Cleared: false, and the server answers with
\* that id, whatever the caches and the service worker.
C22_DurableAcrossVisits ==
  (calls >= 1 /\ fetch.pc = "step1" /\ writes # <<>>) =>
    /\ "X-Qx7-id" \in DOMAIN req.headers
    /\ req.headers["X-Qx7-id"] = writes[Len(writes)].qx7Id
    /\ req.headers["X-Data-Cleared"] = <<"f", "a", "l", "s", "e">>
    /\ res.status = 200 => res.body.qx7Id = writes[Len(writes)].qx7Id

(***************************************************************************)
(* Properties of the page and its iframe                                   *)
(***************************************************************************)

\* Both contexts have acquired an id and added their listeners, and every
\* message posted was dispatched.
Settled ==
  /\ fetch.pc = "listening"
  /\ fetch.returned.hasData
  /\ frame.pc = "listening"
  /\ frame.taken = Len(frame.outbox)
  /\ frame.received = Len(SelectSeq(posted, LAMBDA m : m.to = "iframe"))

\* The step is the page's listener handling a message of the iframe.
PageHandles == frame'.taken = frame.taken + 1 /\ fetch.pc = "listening"

\* C23: once the page and its iframe have both acquired an id and every
\* SYNC_QX7_ID message was dispatched and handled, window.qx7Id is the same
\* in both; and the handling of a message posts no sync message.
C23_ContextsConverge ==
  /\ [](Settled => windowQx7Id = frame.windowQx7Id)
  /\ [][PageHandles =>
          ~\E i \in DOMAIN posted' :
             i > Len(posted) /\ posted'[i].type \in {"sync-qx7-id", "SYNC_QX7_ID"}]_vars

(***************************************************************************)
(* Properties of the demoted adapter and of getStorageHealthStatus         *)
(***************************************************************************)

\* indexedDB is off the list of Qx7Storage.
Demoted == \A i \in DOMAIN STORAGE_PRIORITIES : STORAGE_PRIORITIES[i] # "indexedDB"

\* C24: once indexedDB is off the list, no step of the client opens the
\* database again: the database stays as it is, not created, upgraded,
\* read into or written.
C24_NeverRetried == [][Demoted => indexedDB' = indexedDB]_vars

\* C25: with a service worker registered and active, a readable stored id
\* and both session marks present, detectQx7DataClearing counts at most
\* one probe as positive (the cache probe) and returns dataCleared false:
\* the worker probe is not positive.
C25_ResponsiveWorkerNotCleared ==
  [][(/\ DetectStep
      /\ registration = "registered"
      /\ denied = {}
      /\ FirstActive(YieldsValidId) # 0
      /\ "active-session" \in DOMAIN sessionStorage
      /\ "session-start-time" \in DOMAIN localStorage)
       => /\ detection'.clearedCount <= 1
          /\ ~detection'.dataCleared
          /\ detection'.checks[Len(detection'.checks)] = FALSE]_vars

\* C26: the grade getStorageHealthStatus gave to the result of
\* fetchEnhancedZkx is the top one when localStorage and sessionStorage
\* take writes and the database holds the id, and its probe key is left
\* in neither storage.
C26_HealthGrade ==
  Acquired =>
    /\ ~("storage-test" \in DOMAIN localStorage)
    /\ ~("storage-test" \in DOMAIN sessionStorage)
    /\ (/\ faults.localStorage = 0
        /\ faults.sessionStorage = 0
        /\ faults.indexedDB = "none"
        /\ denied = {}
        /\ indexedDB.qx7data # {})
         => fetch.returned.storageHealth = "Excellent"

=============================================================================
